---- MODULE Spec2Model ----
(***************************************************************************)
(* A model of the knowledge-acquisition pipeline of machine-learning-main: *)
(* the Firestore collections written by brain/db.py, unknown detection     *)
(* (brain/knowledge_base.py), the quick learning cycle                     *)
(* (logic/advanced_learning.py), the provider chain                        *)
(* (services/ai_providers.py), the answer path and the recovery task       *)
(* (background_learner.py).                                                *)
(*                                                                         *)
(* Strings are TLA+ strings.  Timestamps that the code writes but never    *)
(* reads back (learned_at, added_at, timestamp) are not part of the state. *)
(* External collaborators (spaCy, Chroma's embedding distance, the search  *)
(* backends, the LLM providers) are inputs of the actions.                 *)
(***************************************************************************)
EXTENDS Integers, Sequences, FiniteSets, TLC

VARIABLES
    db,         \* Firestore: a record of collections
    index,      \* the Chroma collection: id -> document
    lastRun,    \* logic/advanced_learning.py _last_learning_run: <<>> is None, <<t>> a time
    now,        \* time.time(), in seconds
    ticks,      \* how many times the clock has been advanced
    last,       \* the last operation run, with its inputs and what it returned
    cands,      \* candidate extraction alone: the input and the candidate set
    chain,      \* the last generate_text call
    tasks,      \* recovery tasks: task id -> task dict and loop position
    ranAt,      \* history: the time of the latest quick_learn_unknowns call that was
                \* not skipped, <<>> before the first
    refine,     \* background_learner.py: _learning_tasks, _refinement_timers, the task
                \* dicts and the refinement threads
    jobs,       \* Firestore collection 'jobs' and the Celery queue: job id -> the
                \* document's status and the position of its task
    procs       \* learning cycles running concurrently: caller -> its locals and
                \* its position in the cycle

vars == <<db, index, lastRun, now, ticks, last, cands, chain, tasks, ranAt, refine, jobs, procs>>

-----------------------------------------------------------------------------
(* Bounds *)

MaxTicks == 2
MaxReviews == 2
MaxDocLen == 2
MaxPrefer == 2
MaxAttemptsBound == 3

-----------------------------------------------------------------------------
(* Strings, tokens and phrases *)

\* The words the prompts of the model are made of (lowercase, alphabetic).
Vocabulary == {"neural", "network", "learn", "the", "ai"}

\* " ".join(tokens)
RECURSIVE Join(_)
Join(ts) ==
    IF Len(ts) = 0 THEN ""
    ELSE IF Len(ts) = 1 THEN ts[1]
    ELSE ts[1] \o " " \o Join(Tail(ts))

TokenSeqs == UNION {[1..n -> Vocabulary] : n \in 0..(MaxDocLen + 1)}

\* str.split(): the whitespace-separated tokens of a string that was built from
\* alphabetic tokens joined by single blanks.
SplitTable == [s \in {Join(ts) : ts \in TokenSeqs} |-> CHOOSE ts \in TokenSeqs : Join(ts) = s]

Split(s) == SplitTable[s]

\* " " in s
HasBlank(s) == Len(Split(s)) >= 2

Range(f) == {f[i] : i \in DOMAIN f}

\* dict with key k merged with v, as set(v, merge=True) would write it
Put_merge(f, k, v) ==
    [x \in (DOMAIN f) \cup {k} |->
        IF x # k THEN f[x] ELSE IF k \in DOMAIN f THEN v @@ f[k] ELSE v]

\* dict with key k set to v
Put(f, k, v) == [x \in (DOMAIN f) \cup {k} |-> IF x = k THEN v ELSE f[x]]

\* dict without key k
Drop(f, k) == [x \in (DOMAIN f) \ {k} |-> f[x]]

-----------------------------------------------------------------------------
(* brain/db.py *)

\* The concept keys of the store in this model, in Firestore's document-id
\* order, which is the order get_unknown_words() streams them in.
StreamOrder == <<"network", "neural", "neural network", "quantum">>

\* The concepts most runs work on; the last id of the order is pending only
\* where a listing longer than one batch is needed.
Concepts == Range(StreamOrder) \ {"quantum"}

is_known(d, word) == word \in DOMAIN d.known_words

\* The known_words document add_word writes: the category key is set only
\* for a truthy category.
KnownDoc(explanation, category) ==
    IF category # "" THEN [explanation |-> explanation, category |-> category]
    ELSE [explanation |-> explanation]

add_word_keep_unknown(d, word, explanation, isKnown, category) ==
    IF isKnown
    THEN [d EXCEPT !.known_words = Put(@, word, KnownDoc(explanation, category))]
    ELSE [d EXCEPT !.unknown_words = @ \cup {word}]

add_word(d, word, explanation, isKnown, category) ==
    IF isKnown
    THEN [d EXCEPT !.known_words = Put(@, word, KnownDoc(explanation, category)),
                   !.unknown_words = @ \ {word}]
    ELSE [d EXCEPT !.unknown_words = @ \cup {word}]

\* The ids of list(db.collection("unknown_words").stream()), in stream order.
get_unknown_words(d) ==
    SelectSeq(StreamOrder, LAMBDA w : w \in d.unknown_words)

-----------------------------------------------------------------------------
(* brain/knowledge_base.py: candidate extraction *)

\* A document, a prompt as spaCy parses it: its tokens (lemma and part of speech; every
\* word of the vocabulary is alphabetic) and its noun chunks, each a span
\* <<first, last>> of token positions.
Tokens == [lemma : Vocabulary, pos : {"NOUN", "VERB"}]

\* tok.is_stop for the words of the vocabulary
SpacyStop == {"the"}

\* The words of the vocabulary that are in stopset.
stopset == {"the", "learn"}

Spans(n) == {sp \in (1..n) \X (1..n) : sp[1] <= sp[2]}

\* [tok.lemma_.lower() for tok in chunk if not tok.is_stop and tok.is_alpha]
ChunkLemmas(toks, sp) ==
    LET kept == SelectSeq(SubSeq(toks, sp[1], sp[2]), LAMBDA t : t.lemma \notin SpacyStop)
    IN  [i \in 1..Len(kept) |-> kept[i].lemma]

\* The candidates of the spaCy branch: noun-chunk phrases and noun tokens.
NlpCandidates(doc) ==
    LET phrases == {Join(ChunkLemmas(doc.tokens, sp)) :
                        sp \in {c \in doc.chunks : Len(ChunkLemmas(doc.tokens, c)) > 0}}
        nouns   == {t.lemma : t \in {u \in Range(doc.tokens) :
                        u.pos \in {"NOUN", "PROPN"} /\ u.lemma \notin SpacyStop}}
    IN  {ph \in phrases : Len(ph) >= 3 /\ ph \notin stopset}
        \cup {w \in nouns : Len(w) >= 3 /\ w \notin stopset}

\* The candidates of the fallback branch: prompt.split(), words of 4 letters
\* or more that are not in stopset.
FallbackCandidates(doc) ==
    {w \in {t.lemma : t \in Range(doc.tokens)} : Len(w) >= 4 /\ w \notin stopset}

Candidates(doc, nlpOk) ==
    IF nlpOk THEN NlpCandidates(doc) ELSE FallbackCandidates(doc)

DedupCandidates_keep_tokens(candidates) == candidates

\* Deduplication: the tokens of every multi-word phrase are discarded.
DedupCandidates(candidates) ==
    candidates \ UNION {Range(Split(ph)) : ph \in {c \in candidates : HasBlank(c)}}

Tok(w, p) == [lemma |-> w, pos |-> p]

\* nlp(prompt) for the prompts put to the store in this model: the parsed
\* document of each prompt.  Their candidates are concept keys of the model.
ParseTable ==
    [prompt \in {"neural network", "neural learn network", "network", "neural"} |->
        CASE prompt = "neural network" ->
                [tokens |-> <<Tok("neural", "VERB"), Tok("network", "NOUN")>>,
                 chunks |-> {<<1, 2>>}]
          [] prompt = "neural learn network" ->
                [tokens |-> <<Tok("neural", "NOUN"), Tok("learn", "VERB"), Tok("network", "NOUN")>>,
                 chunks |-> {<<1, 1>>, <<3, 3>>}]
          [] prompt = "network" ->
                [tokens |-> <<Tok("network", "NOUN")>>, chunks |-> {<<1, 1>>}]
          [] prompt = "neural" ->
                [tokens |-> <<Tok("neural", "NOUN")>>, chunks |-> {<<1, 1>>}]]

Prompts == DOMAIN ParseTable

nlp(prompt) == ParseTable[prompt]

\* Any order of a finite set (Python's set iteration order).
RECURSIVE SetToSeq(_)
SetToSeq(S) ==
    IF S = {} THEN <<>>
    ELSE LET x == CHOOSE y \in S : TRUE IN <<x>> \o SetToSeq(S \ {x})

\* A registration that stops after the first candidate.
AddUnknowns_first(d, ws) ==
    IF Len(ws) = 0 THEN d ELSE add_word(d, Head(ws), "", FALSE, "")

\* for cand in dedup_candidates: add_word(cand, explanation="", is_known=False)
RECURSIVE AddUnknowns(_, _)
AddUnknowns(d, ws) ==
    IF Len(ws) = 0 THEN d
    ELSE AddUnknowns(add_word(d, Head(ws), "", FALSE, ""), Tail(ws))

\* A detection that logs the review entry and registers nothing.
detect_and_log_unknown_words_log_only(d, prompt, nlpOk) ==
    [d EXCEPT !.needs_review =
        Append(@, [prompt |-> prompt,
                   candidates |-> DedupCandidates(Candidates(nlp(prompt), nlpOk))])]

\* detect_and_log_unknown_words with the store available: one review entry,
\* then every candidate is registered as unknown.
detect_and_log_unknown_words(d, prompt, nlpOk) ==
    LET dedup  == DedupCandidates(Candidates(nlp(prompt), nlpOk))
        logged == [d EXCEPT !.needs_review =
                        Append(@, [prompt |-> prompt, candidates |-> dedup])]
    IN  AddUnknowns(logged, SetToSeq(dedup))

-----------------------------------------------------------------------------
(* The collaborators of a learning cycle, as inputs of one run *)

NoneValue == "<None>"

LlmText == "llm text"

\* What groq_generate_text returns when the client is missing or the call
\* raises: a non-empty apology string, never an exception.
GroqFailureMessage == "Groq provider is not available."

\* What one call of groq_generate_text can return: generated text, the
\* failure message, an empty completion, or a completion without content.
GroqOutputs == {LlmText, GroqFailureMessage, "", NoneValue}

WebText == "web text"

\* not x, for a value that is a string or None
Falsy(x) == x = "" \/ x = NoneValue

\* An environment of one run: for every concept whether quick_research finds
\* substantial text and what groq_generate_text returns for prompts about it,
\* and whether WordNet has synsets.
Environments ==
    [research : [Concepts -> BOOLEAN], groq : [Concepts -> GroqOutputs], wordnet : BOOLEAN]

\* services/researcher.py quick_research: the text found, or "".
quick_research(env, word) == IF env.research[word] THEN WebText ELSE ""

groq_generate_text(env, word) == env.groq[word]

\* utils/relationship_mapper.py find_and_map_relationships: with synsets, an
\* update of the concept's solidified_knowledge document; update() of a
\* missing document raises and is swallowed inside the function.
find_and_map_relationships(d, env, word) ==
    IF env.wordnet /\ word \in DOMAIN d.solidified_knowledge
    THEN [d EXCEPT !.solidified_knowledge[word] =
              [related_to |-> "hypernyms", subtopics |-> "hyponyms"] @@ @]
    ELSE d

-----------------------------------------------------------------------------
(* logic/advanced_learning.py: the quick cycle *)

LEARNING_INTERVAL == 60

QuickBatch == 3

should_run_learning_strict(lr, t) ==
    IF lr = <<>> THEN TRUE ELSE (t - lr[1]) > LEARNING_INTERVAL

\* A gate that is a lock: closed while another call is between its check and
\* its write of _last_learning_run.
should_run_learning_locked(lr, t) ==
    /\ \A q \in DOMAIN procs : procs[q].pc # "stamp"
    /\ IF lr = <<>> THEN TRUE ELSE (t - lr[1]) >= LEARNING_INTERVAL

should_run_learning(lr, t) ==
    IF lr = <<>> THEN TRUE ELSE (t - lr[1]) >= LEARNING_INTERVAL

\* The explanation of lines 63-75: research first, Groq synthesis when
\* research found nothing.
Explanation(env, word) ==
    IF ~Falsy(quick_research(env, word)) THEN quick_research(env, word)
    ELSE groq_generate_text(env, word)

StringError(word) == [kind |-> "str", text |-> word \o ": No explanation available"]

DictError(word, type) ==
    [kind |-> "dict", word |-> word, type |-> type,
     message |-> "'NoneType' object has no attribute 'strip'"]

\* Whether the store rejects the writes for a word; an environment that says
\* nothing about the store has it working.
StoreFails(env, word) == "storeFails" \in DOMAIN env /\ word \in env.storeFails

\* add_word as its callers see it: an exception of the store is logged inside
\* add_word and the call returns normally, with nothing written.
add_word_try(d, env, word, explanation, isKnown, category) ==
    IF StoreFails(env, word) THEN d
    ELSE add_word(d, word, explanation, isKnown, category)

\* The body of the loop for one concept (lines 58-105) on the loop state
\* [db, learned_count, errors].
LearnOne(st, env, word) ==
    IF Falsy(Explanation(env, word))
    THEN [st EXCEPT !.errors = Append(@, StringError(word))]
    ELSE IF groq_generate_text(env, word) = NoneValue
    THEN [st EXCEPT !.errors = Append(@, DictError(word, "AttributeError"))]
    ELSE [st EXCEPT !.db = find_and_map_relationships(
                              add_word_try(@, env, word, Explanation(env, word), TRUE,
                                           groq_generate_text(env, word)), env, word),
                    !.learned_count = @ + 1]

RECURSIVE LearnAll(_, _, _)
LearnAll(st, env, words) ==
    IF Len(words) = 0 THEN st
    ELSE LearnAll(LearnOne(st, env, Head(words)), env, Tail(words))

Min(a, b) == IF a <= b THEN a ELSE b

\* A run that takes the whole listing.
Batch_all(d) == get_unknown_words(d)

\* unknown_words[:3]
Batch(d) == SubSeq(get_unknown_words(d), 1, Min(QuickBatch, Len(get_unknown_words(d))))

\* A skipped call that restarts the interval.
SkippedCall_stamp(d, lr, t) ==
    [db |-> d, lastRun |-> <<t>>,
     results |-> [status |-> "skipped", learned_count |-> 0, errors |-> <<>>]]

\* return {"status": "skipped", ...} before anything is read or written
SkippedCall(d, lr, t) ==
    [db |-> d, lastRun |-> lr,
     results |-> [status |-> "skipped", learned_count |-> 0, errors |-> <<>>]]

\* quick_learn_unknowns called at time t: the store, _last_learning_run and
\* the returned results.
quick_learn_unknowns(d, lr, t, env) ==
    IF ~should_run_learning(lr, t)
    THEN SkippedCall(d, lr, t)
    ELSE IF Len(get_unknown_words(d)) = 0
    THEN [db |-> d, lastRun |-> <<t>>,
          results |-> [status |-> "no_unknowns", learned_count |-> 0, errors |-> <<>>]]
    ELSE LET st == LearnAll([db |-> d, learned_count |-> 0, errors |-> <<>>],
                            env, Batch(d))
         IN  [db |-> st.db, lastRun |-> <<t>>,
              results |-> [status |-> "completed", learned_count |-> st.learned_count,
                           errors |-> st.errors]]

-----------------------------------------------------------------------------
(* services/chroma_helper.py and the answer path of brain/knowledge_base.py *)

EmptyDict == [x \in {} |-> ""]

\* seed_knowledge.py: the items main() upserts.
SeedItems ==
    { [id |-> "quantum-computing-advancements", text |-> "quantum text"],
      [id |-> "general-relativity-explanation", text |-> "relativity text"],
      [id |-> "learning-programming-languages", text |-> "programming text"] }

\* upsert_knowledge(id, text) on the collection
upsert_knowledge(ix, id, text) == Put(ix, id, text)

RECURSIVE UpsertAll(_, _)
UpsertAll(ix, items) ==
    IF Len(items) = 0 THEN ix
    ELSE UpsertAll(upsert_knowledge(ix, Head(items).id, Head(items).text), Tail(items))

\* Distances are in hundredths: 60 is 0.60.
Threshold == 60

Scores == {Threshold - 1, Threshold, Threshold + 1}

NoHit == [found |-> FALSE]

\* What query_similar(prompt, n_results=1) can return: nothing (an empty
\* collection, or an error), or the nearest stored item with its distance.
Hits(ix) ==
    {NoHit} \cup {[found |-> TRUE, id |-> i, document |-> ix[i], score |-> sc] :
                    i \in DOMAIN ix, sc \in Scores}

OfflineAnswer ==
    "I am currently unable to process this request as my core services are offline."

DontKnowAnswer ==
    "I don't have enough information to answer that question. I will try to learn about it."

IsConfident_inclusive(score) == score <= Threshold

\* similarity_score < 0.6
IsConfident(score) == score < Threshold

\* generate_response_from_knowledge: the store after the call and the
\* response_data returned; branch names the path taken.
generate_response_from_knowledge(d, prompt, healthOk, hit) ==
    IF ~healthOk
    THEN [db |-> d, branch |-> "offline",
          response |-> [raw_knowledge |-> NoHit, synthesized_answer |-> OfflineAnswer]]
    ELSE IF hit.found /\ IsConfident(hit.score)
    THEN [db |-> d, branch |-> "confident",
          response |-> [raw_knowledge |-> hit, synthesized_answer |-> hit.document]]
    ELSE [db |-> detect_and_log_unknown_words(d, prompt, TRUE),
          branch |-> IF hit.found THEN "weak" ELSE "no_match",
          response |-> [raw_knowledge |-> NoHit, synthesized_answer |-> DontKnowAnswer]]

-----------------------------------------------------------------------------
(* main.py process_prompt, scripts/batch_enrich.py persist_entry and the
   reject button of app.py *)

\* The spans of a set of chunks in document order.
RECURSIVE SpanSeq(_)
SpanSeq(S) ==
    IF S = {} THEN <<>>
    ELSE LET sp == CHOOSE x \in S : \A y \in S : x[1] <= y[1]
         IN  <<sp>> \o SpanSeq(S \ {sp})

\* [chunk.text for chunk in doc.noun_chunks]
ChunkTexts(doc) ==
    LET spans == SpanSeq(doc.chunks)
    IN  [i \in 1..Len(spans) |->
            Join([k \in 1..(spans[i][2] - spans[i][1] + 1) |->
                    doc.tokens[spans[i][1] + k - 1].lemma])]

\* process_prompt: the concepts that are not known are registered as unknown.
UnknownConcepts(d, prompt) == SelectSeq(ChunkTexts(nlp(prompt)), LAMBDA c : ~is_known(d, c))

process_prompt(d, prompt) == AddUnknowns(d, UnknownConcepts(d, prompt))

\* The entries enrich_batch produces for the concepts of the model: the
\* placeholder entry or an entry parsed from the LLM's JSON.
Entries ==
    UNION {{[word |-> w, definition |-> df, category |-> c] :
                df \in {w \o ": (placeholder definition)", LlmText}, c \in {"unknown", ""}} :
            w \in Concepts}

\* persist_entry with Firestore configured
persist_entry(d, entry) ==
    [add_word(d, entry.word, entry.definition, TRUE, entry.category)
        EXCEPT !.solidified_knowledge =
            Put(@, entry.word, [enrichment |-> entry, source |-> "batch_enrich"])]

\* The candidates of the latest review entry (the model's candidate sets
\* have fewer than five elements).
LatestCandidates(d) ==
    IF Len(d.needs_review) = 0 THEN {}
    ELSE d.needs_review[Len(d.needs_review)].candidates

\* The reject button: the pending document is deleted unless the word is known.
reject(d, cand) ==
    IF ~is_known(d, cand) THEN [d EXCEPT !.unknown_words = @ \ {cand}] ELSE d

-----------------------------------------------------------------------------
(* The store machine *)

Idle == [op |-> "none"]

\* background_learner.py at import: no task, no timer, no thread.
NoRefinement ==
    [learning_tasks |-> [x \in {} |-> 0], timers |-> [x \in {} |-> 0],
     objects |-> <<>>, threads |-> <<>>]

\* api/app.py at start: no job document, nothing enqueued.
NoJobs == [x \in {} |-> 0]

\* No learning cycle is running.
NoProcs == [x \in {} |-> 0]

EmptyStore ==
    [known_words |-> EmptyDict, unknown_words |-> {},
     solidified_knowledge |-> EmptyDict, needs_review |-> <<>>]

Init ==
    /\ db = EmptyStore
    /\ index = EmptyDict
    /\ lastRun = <<>>
    /\ now = 0
    /\ ticks = 0
    /\ last = Idle
    /\ cands = Idle
    /\ chain = Idle
    /\ tasks = EmptyDict
    /\ ranAt = <<>>
    /\ refine = NoRefinement
    /\ jobs = NoJobs
    /\ procs = NoProcs

\* The environments of the store machine: Groq answers with text, WordNet has
\* synsets, and research succeeds for some concepts and not for others.
LiteEnvironments ==
    {[research |-> r, groq |-> [c \in Concepts |-> LlmText], wordnet |-> TRUE] :
        r \in [Concepts -> BOOLEAN]}

\* The clock advances by d seconds.
Tick(d) ==
    /\ ticks < MaxTicks
    /\ now' = now + d
    /\ ticks' = ticks + 1
    /\ UNCHANGED <<db, index, lastRun, last, cands, chain, tasks, ranAt, refine, jobs, procs>>

\* A call of detect_and_log_unknown_words(prompt).
Detect ==
    /\ Len(db.needs_review) < MaxReviews
    /\ \E prompt \in Prompts :
        /\ db' = detect_and_log_unknown_words(db, prompt, TRUE)
        /\ last' = [op |-> "detect", prompt |-> prompt]
    /\ UNCHANGED <<index, lastRun, now, ticks, cands, chain, tasks, ranAt, refine, jobs, procs>>

\* A run of process_prompt(prompt).
ProcessPrompt ==
    /\ \E prompt \in Prompts :
        /\ db' = process_prompt(db, prompt)
        /\ last' = [op |-> "process_prompt", prompt |-> prompt]
    /\ UNCHANGED <<index, lastRun, now, ticks, cands, chain, tasks, ranAt, refine, jobs, procs>>

\* Every research backend found nothing for the word and the Groq client is
\* missing or its call raised, which groq_generate_text answers with its
\* failure message.
Exhausted(env, word) ==
    Falsy(quick_research(env, word)) /\ groq_generate_text(env, word) = GroqFailureMessage

\* A call of quick_learn_unknowns() in an environment of Envs.
QuickLearn(Envs) ==
    /\ \E env \in Envs :
        LET r == quick_learn_unknowns(db, lastRun, now, env)
        IN  /\ db' = r.db
            /\ lastRun' = r.lastRun
            /\ ranAt' = IF r.results.status = "skipped" THEN ranAt ELSE <<now>>
            /\ last' = [op |-> "quick_learn", at |-> now, prevRanAt |-> ranAt,
                        results |-> r.results,
                        batch |-> IF r.results.status = "completed" THEN Batch(db) ELSE <<>>,
                        unexplained |-> IF r.results.status = "completed"
                                        THEN {w \in Range(Batch(db)) : Falsy(Explanation(env, w))}
                                        ELSE {},
                        raised |-> IF r.results.status = "completed"
                                   THEN {w \in Range(Batch(db)) :
                                            /\ ~Falsy(Explanation(env, w))
                                            /\ groq_generate_text(env, w) = NoneValue}
                                   ELSE {},
                        exhausted |-> IF r.results.status = "completed"
                                      THEN {w \in Range(Batch(db)) : Exhausted(env, w)}
                                      ELSE {}]
    /\ UNCHANGED <<index, now, ticks, cands, chain, tasks, refine, jobs, procs>>

\* persist_entry(entry) for one enriched entry.
PersistEntry ==
    /\ \E entry \in Entries :
        /\ db' = persist_entry(db, entry)
        /\ last' = [op |-> "persist_entry", entry |-> entry,
                    wasPending |-> entry.word \in db.unknown_words]
    /\ UNCHANGED <<index, lastRun, now, ticks, cands, chain, tasks, ranAt, refine, jobs, procs>>

\* The reject button on a candidate of the latest review entry.
Reject ==
    /\ \E cand \in LatestCandidates(db) :
        /\ db' = reject(db, cand)
        /\ last' = [op |-> "reject", cand |-> cand]
    /\ UNCHANGED <<index, lastRun, now, ticks, cands, chain, tasks, ranAt, refine, jobs, procs>>

Next ==
    \/ Detect
    \/ QuickLearn(LiteEnvironments)
    \/ Reject
    \/ Tick(LEARNING_INTERVAL)

Spec == Init /\ [][Next]_vars

-----------------------------------------------------------------------------
(* The quick cycle alone: three pending concepts, calls of
   quick_learn_unknowns at times one second before, at and after the
   interval *)

PendingStore == [EmptyStore EXCEPT !.unknown_words = Concepts]

InitCycle ==
    /\ db = PendingStore
    /\ index = EmptyDict
    /\ lastRun = <<>>
    /\ now = 0
    /\ ticks = 0
    /\ last = Idle
    /\ cands = Idle
    /\ chain = Idle
    /\ tasks = EmptyDict
    /\ ranAt = <<>>
    /\ refine = NoRefinement
    /\ jobs = NoJobs
    /\ procs = NoProcs

\* The environments of a cycle: research succeeds for some concepts and not
\* for others; Groq behaves in one way during a run.
CycleEnvironments ==
    {[research |-> r, groq |-> [c \in Concepts |-> g], wordnet |-> TRUE] :
        r \in [Concepts -> BOOLEAN], g \in GroqOutputs}

TickSteps == {1, LEARNING_INTERVAL - 1}

NextCycle ==
    \/ QuickLearn(CycleEnvironments)
    \/ \E d \in TickSteps : Tick(d)

SpecCycle == InitCycle /\ [][NextCycle]_vars

-----------------------------------------------------------------------------
(* services/researcher.py: the search chain of quick_research, with texts
   as their lengths before and after strip() *)

\* len(result.strip()) > 50 in quick_research
MinResearchLength == 50

\* len(response.strip()) > 20 in _search_groq_tools
MinGroqLength == 20

EmptyText == [id |-> "", len |-> 0, stripped |-> 0]

\* "Groq provider is not available."
GroqUnavailableText == [id |-> "Groq provider is not available.", len |-> 31, stripped |-> 31]

\* "I am having trouble accessing my knowledge base at the moment."
GroqTroubleText ==
    [id |-> "I am having trouble accessing my knowledge base at the moment.",
     len |-> 62, stripped |-> 62]

\* The texts a service can answer with: lengths around the two thresholds,
\* bare or with one blank on each side.
ServiceTexts(name) ==
    {[id |-> name, len |-> n + p, stripped |-> n] :
        n \in {0, MinGroqLength, MinGroqLength + 1, MinResearchLength, MinResearchLength + 1},
        p \in {0, 2}}

\* What the DuckDuckGo package does: missing, raising, or answering.
DdgOutcomes ==
    {[kind |-> k, text |-> EmptyText] : k \in {"unavailable", "raises"}}
        \cup {[kind |-> "text", text |-> t] : t \in ServiceTexts("DuckDuckGo")}

\* Google CSE: requests not importable, keys not set, the request raising,
\* or answering.
GoogleOutcomes ==
    {[kind |-> k, text |-> EmptyText] : k \in {"import_error", "unconfigured", "raises"}}
        \cup {[kind |-> "text", text |-> t] : t \in ServiceTexts("Google CSE")}

\* Groq: the provider module not importable, no client, the completion call
\* raising, a completion without content, or a completion.
GroqSearchOutcomes ==
    {[kind |-> k, text |-> EmptyText] : k \in {"import_error", "no_client", "raises", "none"}}
        \cup {[kind |-> "text", text |-> t] : t \in ServiceTexts("Groq")}

\* The value of a search method that raised.
MethodRaised == [id |-> "<raised>", len |-> 0, stripped |-> 0]

search_ddgs(o) == IF o.kind = "text" THEN o.text ELSE EmptyText

search_google_custom(o) ==
    CASE o.kind = "import_error" -> MethodRaised
      [] o.kind = "text" -> o.text
      [] OTHER -> EmptyText

\* groq_generate_text as _search_groq_tools calls it; None is EmptyText here,
\* both being falsy.
groq_response(o) ==
    CASE o.kind = "no_client" -> GroqUnavailableText
      [] o.kind = "raises" -> GroqTroubleText
      [] o.kind = "text" -> o.text
      [] OTHER -> EmptyText

search_groq_tools(o) ==
    IF o.kind = "import_error" THEN MethodRaised
    ELSE IF groq_response(o).len > 0 /\ groq_response(o).stripped > MinGroqLength
    THEN groq_response(o)
    ELSE EmptyText

\* if result and len(result.strip()) > 50
Substantial(result) ==
    result # MethodRaised /\ result.len > 0 /\ result.stripped > MinResearchLength

\* The loop of quick_research over its three methods.
quick_research_chain(ddg, google, groq) ==
    IF Substantial(search_ddgs(ddg)) THEN search_ddgs(ddg)
    ELSE IF Substantial(search_google_custom(google)) THEN search_google_custom(google)
    ELSE IF Substantial(search_groq_tools(groq)) THEN search_groq_tools(groq)
    ELSE EmptyText

InitResearch ==
    /\ db = EmptyStore
    /\ index = EmptyDict
    /\ lastRun = <<>>
    /\ now = 0
    /\ ticks = 0
    /\ last = Idle
    /\ cands = Idle
    /\ chain \in {[op |-> "research", ddg |-> a, google |-> b, groq |-> c] :
                    a \in DdgOutcomes, b \in GoogleOutcomes, c \in GroqSearchOutcomes}
    /\ tasks = EmptyDict
    /\ ranAt = <<>>
    /\ refine = NoRefinement
    /\ jobs = NoJobs
    /\ procs = NoProcs

\* One call of quick_research(concept).
QuickResearch ==
    /\ chain.op = "research"
    /\ chain' = [op |-> "quick_research", ddg |-> chain.ddg, google |-> chain.google,
                 groq |-> chain.groq,
                 result |-> quick_research_chain(chain.ddg, chain.google, chain.groq)]
    /\ UNCHANGED <<db, index, lastRun, now, ticks, last, cands, tasks, ranAt, refine, jobs, procs>>

NextResearch == QuickResearch

SpecResearch == InitResearch /\ [][NextResearch]_vars

-----------------------------------------------------------------------------
(* The quick cycle on a listing longer than one batch *)

LongStore == [EmptyStore EXCEPT !.unknown_words = Range(StreamOrder)]

InitBatch ==
    /\ db = LongStore
    /\ index = EmptyDict
    /\ lastRun = <<>>
    /\ now = 0
    /\ ticks = 0
    /\ last = Idle
    /\ cands = Idle
    /\ chain = Idle
    /\ tasks = EmptyDict
    /\ ranAt = <<>>
    /\ refine = NoRefinement
    /\ jobs = NoJobs
    /\ procs = NoProcs

BatchEnvironments ==
    {[research |-> r, groq |-> [c \in Range(StreamOrder) |-> g], wordnet |-> TRUE] :
        r \in [Range(StreamOrder) -> BOOLEAN], g \in GroqOutputs}

NextBatch ==
    \/ QuickLearn(BatchEnvironments)
    \/ Tick(LEARNING_INTERVAL)

SpecBatch == InitBatch /\ [][NextBatch]_vars

-----------------------------------------------------------------------------
(* The quick cycle with a store that rejects the writes for some concepts *)

FaultEnvironments ==
    {[research |-> r, groq |-> [c \in Concepts |-> LlmText], wordnet |-> TRUE,
      storeFails |-> f] :
        r \in [Concepts -> BOOLEAN], f \in SUBSET Concepts}

NextFault ==
    \/ QuickLearn(FaultEnvironments)
    \/ Tick(LEARNING_INTERVAL)

SpecFault == InitCycle /\ [][NextFault]_vars

-----------------------------------------------------------------------------
(* Quick cycles repeated for ever, none of them skipped, in one environment
   and with nothing new registered.  The gate compares time.time() with
   _last_learning_run only by their difference, so the clock is kept
   relative: each cycle runs at time now, one interval after the one before. *)

InitRepeat ==
    /\ db = LongStore
    /\ index = EmptyDict
    /\ lastRun = <<>>
    /\ now = 0
    /\ ticks = 0
    /\ last = Idle
    /\ cands = Idle
    /\ chain \in {[op |-> "environment", env |-> e] : e \in BatchEnvironments}
    /\ tasks = EmptyDict
    /\ ranAt = <<>>
    /\ refine = NoRefinement
    /\ jobs = NoJobs
    /\ procs = NoProcs

\* The next cycle, LEARNING_INTERVAL after the previous one.
RepeatedCycle ==
    /\ LET r == quick_learn_unknowns(db, lastRun, now, chain.env)
       IN  /\ db' = r.db
           /\ lastRun' = <<r.lastRun[1] - LEARNING_INTERVAL>>
           /\ last' = [op |-> "quick_learn", at |-> now, results |-> r.results,
                       batch |-> Batch(db)]
    /\ UNCHANGED <<index, now, ticks, cands, chain, tasks, ranAt, refine, jobs, procs>>

NextRepeat == RepeatedCycle

\* The scheduler keeps calling.
SpecRepeat == InitRepeat /\ [][NextRepeat]_vars /\ WF_vars(RepeatedCycle)

-----------------------------------------------------------------------------
(* Promotion by batch enrichment, with process_prompt registering unknowns *)

NextPromote ==
    \/ ProcessPrompt
    \/ PersistEntry

SpecPromote == Init /\ [][NextPromote]_vars

-----------------------------------------------------------------------------
(* The answer path: questions, the seeded vector index, quick cycles *)

\* seed_knowledge.py main(): every seed item is upserted.
SeedKnowledge ==
    /\ index' = UpsertAll(index, SetToSeq(SeedItems))
    /\ last' = [op |-> "seed"]
    /\ UNCHANGED <<db, lastRun, now, ticks, cands, chain, tasks, ranAt, refine, jobs, procs>>

\* A call of generate_response_from_knowledge(prompt).  The history kept in
\* last: which concepts of the prompt were known, with what explanation, when
\* the question was put.
Ask(Questions) ==
    /\ \E prompt \in Questions, healthOk \in BOOLEAN, hit \in Hits(index) :
        LET r == generate_response_from_knowledge(db, prompt, healthOk, hit)
        IN  /\ Len(r.db.needs_review) <= MaxReviews
            /\ db' = r.db
            /\ last' = [op |-> "ask", prompt |-> prompt, healthOk |-> healthOk, hit |-> hit,
                        branch |-> r.branch, response |-> r.response,
                        knownBefore |-> {c \in DedupCandidates(Candidates(nlp(prompt), TRUE)) :
                                            is_known(db, c)}]
    /\ UNCHANGED <<index, lastRun, now, ticks, cands, chain, tasks, ranAt, refine, jobs, procs>>

\* The questions of the answer path.
AnswerPrompts == {"network", "neural network"}

NextAnswer ==
    \/ Ask(AnswerPrompts)
    \/ SeedKnowledge
    \/ QuickLearn(LiteEnvironments)

SpecAnswer == Init /\ [][NextAnswer]_vars

-----------------------------------------------------------------------------
(* brain/knowledge_base.py: candidate extraction as a function of the parse *)

\* The noun chunks of a parse are disjoint spans of the document.
Disjoint(chunks) ==
    \A a \in chunks : \A b \in chunks : a = b \/ a[2] < b[1] \/ b[2] < a[1]

\* The parses of the prompts of up to MaxDocLen tokens.
Docs ==
    UNION {{[tokens |-> ts, chunks |-> cs] :
                ts \in [1..n -> Tokens], cs \in {c \in SUBSET Spans(n) : Disjoint(c)}} :
           n \in 1..MaxDocLen}

InitExtract ==
    /\ db = EmptyStore
    /\ index = EmptyDict
    /\ lastRun = <<>>
    /\ now = 0
    /\ ticks = 0
    /\ last = Idle
    /\ cands \in {[op |-> "prompt", doc |-> d, nlpOk |-> b] : d \in Docs, b \in BOOLEAN}
    /\ chain = Idle
    /\ tasks = EmptyDict
    /\ ranAt = <<>>
    /\ refine = NoRefinement
    /\ jobs = NoJobs
    /\ procs = NoProcs

\* Lines 90-124 of detect_and_log_unknown_words: the candidates of the parse
\* and their deduplication.
Extract ==
    /\ cands.op = "prompt"
    /\ cands' = [op |-> "extracted", doc |-> cands.doc, nlpOk |-> cands.nlpOk,
                 raw |-> Candidates(cands.doc, cands.nlpOk),
                 dedup_candidates |-> DedupCandidates(Candidates(cands.doc, cands.nlpOk))]
    /\ UNCHANGED <<db, index, lastRun, now, ticks, last, chain, tasks, ranAt, refine, jobs, procs>>

NextExtract == Extract

SpecExtract == InitExtract /\ [][NextExtract]_vars

-----------------------------------------------------------------------------
(* services/ai_providers.py: generate_text *)

ProviderNames == {"ignis", "gemini", "groq"}

\* The provider functions that are names of the module: _try_ignis is
\* defined inside the body of _try_groq, so the module has no such name.
ModuleFunctions == {"gemini", "groq"}

ProviderOutputs == {"provider text", "", NoneValue}

\* What each provider's endpoint answers to the prompt: text, an empty text,
\* or nothing (not configured, not reachable, an error caught in _try_*).
ProviderEnvs == [ProviderNames -> ProviderOutputs]

\* prefer: None, written <<>>, or a tuple of provider names, written <<tuple>>.
Preferences == {<<>>} \cup {<<order>> : order \in UNION {[1..n -> ProviderNames] : n \in 0..MaxPrefer}}

DefaultPrefer == <<"ignis", "gemini", "groq">>

ProviderTag(provider) ==
    CASE provider = "gemini" -> "Gemini"
      [] provider = "groq"   -> "Groq"
      [] provider = "ignis"  -> "Ignis"

\* The loop of generate_text over the providers that remain, calls being the
\* providers called so far.
RECURSIVE TryProviders(_, _, _)
TryProviders(rest, env, calls) ==
    IF Len(rest) = 0
    THEN [kind |-> "raise", error |-> "RuntimeError", calls |-> calls]
    ELSE LET provider == Head(rest) IN
         IF provider \notin ModuleFunctions
         THEN [kind |-> "raise", error |-> "NameError", calls |-> calls]
         ELSE IF ~Falsy(env[provider])
         THEN [kind |-> "return", response |-> env[provider],
               provider |-> ProviderTag(provider), calls |-> Append(calls, provider)]
         ELSE TryProviders(Tail(rest), env, Append(calls, provider))

generate_text(env, prefer) ==
    TryProviders(IF prefer = <<>> THEN DefaultPrefer ELSE prefer[1], env, <<>>)

\* ai_providers.py (the older module): the same loop over 'gemini' and 'groq'
\* only, other identifiers being passed over; it returns the output itself.
LegacyDefaultPrefer == <<"gemini", "groq">>

RECURSIVE LegacyTryProviders(_, _, _)
LegacyTryProviders(rest, env, calls) ==
    IF Len(rest) = 0
    THEN [kind |-> "raise", error |-> "RuntimeError", calls |-> calls]
    ELSE LET provider == Head(rest) IN
         IF provider \notin {"gemini", "groq"}
         THEN LegacyTryProviders(Tail(rest), env, calls)
         ELSE IF ~Falsy(env[provider])
         THEN [kind |-> "return", response |-> env[provider],
               calls |-> Append(calls, provider)]
         ELSE LegacyTryProviders(Tail(rest), env, Append(calls, provider))

legacy_generate_text(env, prefer) ==
    LegacyTryProviders(IF prefer = <<>> THEN LegacyDefaultPrefer ELSE prefer[1], env, <<>>)

InitChain ==
    /\ db = EmptyStore
    /\ index = EmptyDict
    /\ lastRun = <<>>
    /\ now = 0
    /\ ticks = 0
    /\ last = Idle
    /\ cands = Idle
    /\ chain \in {[op |-> "call", prefer |-> p, env |-> e] : p \in Preferences, e \in ProviderEnvs}
    /\ tasks = EmptyDict
    /\ ranAt = <<>>
    /\ refine = NoRefinement
    /\ jobs = NoJobs
    /\ procs = NoProcs

GenerateText ==
    /\ chain.op = "call"
    /\ chain' = [op |-> "generate_text", prefer |-> chain.prefer, env |-> chain.env,
                 result |-> generate_text(chain.env, chain.prefer),
                 legacy |-> legacy_generate_text(chain.env, chain.prefer)]
    /\ UNCHANGED <<db, index, lastRun, now, ticks, last, cands, tasks, ranAt, refine, jobs, procs>>

NextChain == GenerateText

SpecChain == InitChain /\ [][NextChain]_vars

-----------------------------------------------------------------------------
(* background_learner.py: recovery tasks *)

\* The recovery tasks of the model; each runs in a thread of its own.
TaskIds == {"t1", "t2"}

ImprovedResponse == "An improved response."
FailedResponses == {"bad answer", ImprovedResponse}

\* What search_web_and_learn does in one attempt: the function is a stand-in
\* that returns the empty list; the learner it stands for may also return
\* results or raise.
WebOutcomes == {"empty", "found", "raises"}

\* What regenerate_response_with_learning returns: the stand-in returns
\* ImprovedResponse; the generator it stands for may return nothing.
RegenerateOutputs == {ImprovedResponse, ""}

\* The task dictionary schedule_recovery_task builds.
NewRecoveryTask(failed_response, max_attempts) ==
    [failed_response |-> failed_response, attempts |-> 0, max_attempts |-> max_attempts,
     status |-> "pending", improved_response |-> NoneValue,
     \* history: the attempts so far in which regeneration was called
     regenerations |-> 0]

\* schedule_recovery_task: the task is built and its thread started.
ScheduleRecovery ==
    \E id \in TaskIds \ DOMAIN tasks, fr \in FailedResponses, n \in 0..MaxAttemptsBound :
        /\ tasks' = Put(tasks, id, NewRecoveryTask(fr, n))
        /\ UNCHANGED <<db, index, lastRun, now, ticks, last, cands, chain, ranAt, refine, jobs, procs>>

\* for attempt in range(task["max_attempts"]), with an off-by-one variant
RangeHasNext_inclusive(task) == task.attempts <= task.max_attempts

RangeHasNext(task) == task.attempts < task.max_attempts

\* if web_results: ... if improved and improved != task["failed_response"]
Improves(task, web, improved) ==
    web = "found" /\ improved # "" /\ improved # task.failed_response

\* One iteration of the loop of _run_recovery_task, to its return or to the
\* end of its sleep.
AttemptRecovery(task, web, improved) ==
    LET counted == [task EXCEPT !.attempts = task.attempts + 1,
                                !.regenerations = IF web = "found" THEN @ + 1 ELSE @] IN
    IF Improves(task, web, improved)
    THEN [counted EXCEPT !.improved_response = improved, !.status = "recovered"]
    ELSE counted

RunningTasks == {id \in DOMAIN tasks : tasks[id].status = "pending"}

\* What search_web_and_learn leaves in the store, with a variant that keeps
\* what it found as a known word.
search_web_and_learn_stores(d, web) ==
    IF web = "found"
    THEN [d EXCEPT !.known_words = Put(@, "learn", [definition |-> "found"])]
    ELSE d

\* search_web_and_learn returns its results and writes nothing.
search_web_and_learn(d, web) == d

RecoveryAttempt(id) ==
    /\ id \in RunningTasks
    /\ RangeHasNext(tasks[id])
    /\ \E web \in WebOutcomes, improved \in RegenerateOutputs :
        /\ tasks' = Put(tasks, id, AttemptRecovery(tasks[id], web, improved))
        /\ db' = search_web_and_learn(db, web)
    /\ UNCHANGED <<index, lastRun, now, ticks, last, cands, chain, ranAt, refine, jobs, procs>>

\* The loop is exhausted: task["status"] = "failed"
RecoveryGiveUp(id) ==
    /\ id \in RunningTasks
    /\ ~RangeHasNext(tasks[id])
    /\ tasks' = Put(tasks, id, [tasks[id] EXCEPT !.status = "failed"])
    /\ UNCHANGED <<db, index, lastRun, now, ticks, last, cands, chain, ranAt, refine, jobs, procs>>

RecoveryThread(id) == RecoveryAttempt(id) \/ RecoveryGiveUp(id)

NextRecovery == ScheduleRecovery \/ \E id \in TaskIds : RecoveryThread(id)

\* A started thread keeps running until its function returns.
SpecRecovery ==
    Init /\ [][NextRecovery]_vars /\ \A id \in TaskIds : WF_vars(RecoveryThread(id))

-----------------------------------------------------------------------------
(* logic/advanced_learning.py: the deep cycle *)

GeminiText == "gemini text"

GeminiCategory == "Factual"

\* The document ids deep_learning does not deepen.
ReservedIds == {"solidified_knowledge", "_default_", "sentence_patterns"}

\* solidified_knowledge in stream order (document-id order).
SolidOrder == <<"_default_">> \o StreamOrder

\* limit(5)
DeepenLimit == 5

\* The environments of a deep cycle: those of a quick cycle, with whether
\* GEMINI_API_KEY is set and whether Gemini's generate_content answers.
DeepEnvironments ==
    {[research |-> r, groq |-> [c \in Concepts |-> g], wordnet |-> TRUE,
      geminiKey |-> gm[1], geminiOk |-> gm[2]] :
        r \in [Concepts -> BOOLEAN], g \in GroqOutputs \ {NoneValue},
        gm \in {<<FALSE, FALSE>>, <<TRUE, FALSE>>, <<TRUE, TRUE>>}}

\* services/researcher.py research_new_concept with a Gemini client: nothing
\* without web context, else the model's synthesis, "" when it raises.
research_new_concept(env, word) ==
    IF Falsy(quick_research(env, word)) THEN ""
    ELSE IF env.geminiOk THEN GeminiText ELSE ""

\* Steps 1 to 3 of deep_learning: Gemini research, quick research, Groq.
DeepExplanation(env, word) ==
    LET first  == IF env.geminiKey THEN research_new_concept(env, word) ELSE NoneValue
        second == IF Falsy(first) THEN quick_research(env, word) ELSE first
    IN  IF Falsy(second) THEN groq_generate_text(env, word) ELSE second

\* utils/categorizer.py categorize_text, as deep_learning uses it.
DeepCategory(env) ==
    IF env.geminiKey THEN (IF env.geminiOk THEN GeminiCategory ELSE "")
    ELSE "Conceptual"

DeepStringError(word) ==
    [kind |-> "str", text |-> word \o ": No explanation could be generated"]

\* results["errors"].append(...); continue -- with a variant that also
\* forgets the concept
RecordFailure_unregister(st, word, err) ==
    [st EXCEPT !.errors = Append(@, err), !.db.unknown_words = @ \ {word}]

RecordFailure(st, word, err) == [st EXCEPT !.errors = Append(@, err)]

\* The body of the first loop of deep_learning for one pending concept, on
\* the loop state [db, learned_unknown, deepened_known, errors].
DeepLearnOne(st, env, word) ==
    IF Falsy(DeepExplanation(env, word))
    THEN RecordFailure(st, word, DeepStringError(word))
    ELSE [st EXCEPT !.db = find_and_map_relationships(
                              add_word(@, word, DeepExplanation(env, word), TRUE,
                                       DeepCategory(env)), env, word),
                    !.learned_unknown = @ + 1]

RECURSIVE DeepLearnAll(_, _, _)
DeepLearnAll(st, env, words) ==
    IF Len(words) = 0 THEN st
    ELSE DeepLearnAll(DeepLearnOne(st, env, Head(words)), env, Tail(words))

\* db.collection('solidified_knowledge').limit(5).stream()
KnownDocs(d) ==
    LET ids == SelectSeq(SolidOrder, LAMBDA w : w \in DOMAIN d.solidified_knowledge)
    IN  SubSeq(ids, 1, Min(DeepenLimit, Len(ids)))

\* The body of the second loop for one document: with Gemini answering, the
\* document gets its expanded definition.
\* A deepening that writes the expansion over the canonical definition.
DeepenOne_overwrite(st, env, word) ==
    IF word \in ReservedIds \/ ~env.geminiKey \/ ~env.geminiOk THEN st
    ELSE [st EXCEPT !.db.solidified_knowledge[word] =
                        [definition |-> GeminiText, last_deepened |-> now] @@ @,
                    !.deepened_known = @ + 1]

DeepenOne(st, env, word) ==
    IF word \in ReservedIds \/ ~env.geminiKey \/ ~env.geminiOk THEN st
    ELSE [st EXCEPT !.db.solidified_knowledge[word] =
                        [expanded_definition |-> GeminiText, last_deepened |-> now] @@ @,
                    !.deepened_known = @ + 1]

RECURSIVE DeepenAll(_, _, _)
DeepenAll(st, env, words) ==
    IF Len(words) = 0 THEN st
    ELSE DeepenAll(DeepenOne(st, env, Head(words)), env, Tail(words))

\* deep_learning(): the store and the returned results.
deep_learning(d, env) ==
    LET learned  == DeepLearnAll([db |-> d, learned_unknown |-> 0, deepened_known |-> 0,
                                  errors |-> <<>>], env, get_unknown_words(d))
        deepened == DeepenAll(learned, env, KnownDocs(learned.db))
    IN  [db |-> deepened.db,
         results |-> [status |-> "completed", deepened_known |-> deepened.deepened_known,
                      learned_unknown |-> deepened.learned_unknown,
                      errors |-> deepened.errors]]

\* A call of deep_learning().
DeepLearn ==
    /\ \E env \in DeepEnvironments :
        LET r == deep_learning(db, env)
        IN  /\ db' = r.db
            /\ last' = [op |-> "deep_learn", results |-> r.results,
                        batch |-> get_unknown_words(db),
                        unexplained |-> {w \in db.unknown_words :
                                            Falsy(DeepExplanation(env, w))},
                        raised |-> {}]
    /\ UNCHANGED <<index, lastRun, now, ticks, cands, chain, tasks, ranAt, refine, jobs, procs>>

\* A store with pending concepts and documents to deepen.
DeepStore ==
    [PendingStore EXCEPT !.solidified_knowledge =
        Put(Put(EmptyDict, "_default_", [source |-> "init"]),
            "network", [definition |-> WebText])]

InitDeep ==
    /\ db = DeepStore
    /\ index = EmptyDict
    /\ lastRun = <<>>
    /\ now = 0
    /\ ticks = 0
    /\ last = Idle
    /\ cands = Idle
    /\ chain = Idle
    /\ tasks = EmptyDict
    /\ ranAt = <<>>
    /\ refine = NoRefinement
    /\ jobs = NoJobs
    /\ procs = NoProcs

NextDeep ==
    \/ DeepLearn
    \/ QuickLearn(CycleEnvironments)

SpecDeep == InitDeep /\ [][NextDeep]_vars

-----------------------------------------------------------------------------
(* background_learner.py: refinement tasks *)

REFINEMENT_INTERVAL == 300

\* How many times schedule_refinement_task is called in a behaviour.
MaxSchedules == 2

Topics == {"neural"}

\* The knowledge_data a task is scheduled with: a dict, or None, which
\* refine_knowledge_entry cannot unpack.
KnowledgeData == {"dict", NoneValue}

\* refine_knowledge_entry(topic, knowledge) raises (TypeError on
\* **knowledge_data) exactly for a knowledge that is no mapping;
\* groq_generate_text, which it calls, does not raise.
RefineRaises(knowledge) == knowledge = NoneValue

\* _refinement_timers.get(topic, datetime.now())
TimerOf(r, topic, t) == IF topic \in DOMAIN r.timers THEN r.timers[topic] ELSE t

\* schedule_refinement_task: a new task dict becomes the topic's task, the
\* timer is set, and a refinement thread and a related-topics thread start.
schedule_refinement_task(r, topic, knowledge, t) ==
    [learning_tasks |-> Put(r.learning_tasks, topic, Len(r.objects) + 1),
     timers  |-> Put(r.timers, topic, t + REFINEMENT_INTERVAL),
     objects |-> Append(r.objects, [topic |-> topic, knowledge |-> knowledge,
                                    status |-> "pending", related_topics |-> <<>>,
                                    relatedPending |-> TRUE]),
     threads |-> Append(r.threads, [topic |-> topic, pc |-> "loop", task |-> 0])]

\* clear_task
clear_task(r, topic) ==
    [r EXCEPT !.learning_tasks = Drop(@, topic), !.timers = Drop(@, topic)]

\* _schedule_related_topics_learning, started with task object g: the topics
\* found are written into the topic's current task; a cleared topic makes the
\* write raise, which the function logs.
related_topics_learning(r, g, related) ==
    LET topic == r.objects[g].topic
        done  == [r EXCEPT !.objects[g].relatedPending = FALSE]
    IN  IF Len(related) > 0 /\ topic \in DOMAIN r.learning_tasks
        THEN [done EXCEPT !.objects[r.learning_tasks[topic]].related_topics = related]
        ELSE done

\* The top of the loop of _run_refinement_task for thread th at time t: the
\* loop ends when the topic has no task; when the timer is due an attempt
\* starts on the topic's task; otherwise the thread sleeps.
RefineLoopTop(r, th, t) ==
    LET topic == r.threads[th].topic IN
    IF topic \notin DOMAIN r.learning_tasks
    THEN [r EXCEPT !.threads[th].pc = "done"]
    ELSE IF t >= TimerOf(r, topic, t)
    THEN [r EXCEPT !.threads[th].pc = "refining",
                   !.threads[th].task = r.learning_tasks[topic]]
    ELSE r

\* except Exception: task["status"] = "error"; break -- with a variant that
\* goes on looping
OnRefineError_retry(r, th, t) ==
    [r EXCEPT !.objects[r.threads[th].task].status = "error",
              !.threads[th].pc = "loop"]

OnRefineError(r, th, t) ==
    [r EXCEPT !.objects[r.threads[th].task].status = "error",
              !.threads[th].pc = "broken"]

\* The attempt returns: the task is marked refined and the timer set again.
OnRefined(r, th, t) ==
    [r EXCEPT !.objects[r.threads[th].task].status = "refined",
              !.timers = Put(@, r.threads[th].topic, t + REFINEMENT_INTERVAL),
              !.threads[th].pc = "loop"]

\* The end of an attempt of thread th.
RefineAttemptEnd(r, th, t) ==
    IF RefineRaises(r.objects[r.threads[th].task].knowledge)
    THEN OnRefineError(r, th, t)
    ELSE OnRefined(r, th, t)

ScheduleRefinement ==
    /\ Len(refine.objects) < MaxSchedules
    /\ \E topic \in Topics, knowledge \in KnowledgeData :
        refine' = schedule_refinement_task(refine, topic, knowledge, now)
    /\ UNCHANGED <<db, index, lastRun, now, ticks, last, cands, chain, tasks, ranAt, jobs, procs>>

ClearTask ==
    /\ \E topic \in DOMAIN refine.learning_tasks : refine' = clear_task(refine, topic)
    /\ UNCHANGED <<db, index, lastRun, now, ticks, last, cands, chain, tasks, ranAt, jobs, procs>>

LearnRelated ==
    /\ \E g \in DOMAIN refine.objects, related \in {<<>>, <<"learn">>} :
        /\ refine.objects[g].relatedPending
        /\ refine' = related_topics_learning(refine, g, related)
    /\ UNCHANGED <<db, index, lastRun, now, ticks, last, cands, chain, tasks, ranAt, jobs, procs>>

RefineWake(th) ==
    /\ th \in DOMAIN refine.threads
    /\ refine.threads[th].pc = "loop"
    /\ refine' = RefineLoopTop(refine, th, now)
    /\ UNCHANGED <<db, index, lastRun, now, ticks, last, cands, chain, tasks, ranAt, jobs, procs>>

RefineEnd(th) ==
    /\ th \in DOMAIN refine.threads
    /\ refine.threads[th].pc = "refining"
    /\ refine' = RefineAttemptEnd(refine, th, now)
    /\ UNCHANGED <<db, index, lastRun, now, ticks, last, cands, chain, tasks, ranAt, jobs, procs>>

NextRefine ==
    \/ ScheduleRefinement
    \/ ClearTask
    \/ LearnRelated
    \/ \E th \in 1..MaxSchedules : RefineWake(th) \/ RefineEnd(th)
    \/ Tick(REFINEMENT_INTERVAL)

SpecRefine == Init /\ [][NextRefine]_vars

-----------------------------------------------------------------------------
(* Jobs: api/app.py enqueues, api/tasks.py runs.                           *)
(* A job is jobs[id] = [mode, status, task, pc, job_ref, faulted]: status   *)
(* is the                                                                  *)
(* 'status' field of the document jobs/{id}, NoneValue when the document   *)
(* was never written; task is the Celery task name sent; pc is where that  *)
(* task is ("enqueued", "body", "done"); job_ref is the task's local       *)
(* job_ref being set.  Each Firestore write either succeeds or raises;     *)
(* faulted is the history of a write of this job having raised.  errors is *)
(* the 'errors' field, concept_id the argument of finalize_concept, result *)
(* the status of the results the learning cycle returned and readFault the *)
(* history of the cycle having failed to read the pending list.            *)

MaxJobs == 2

\* job_id = str(uuid.uuid4())
JobIds == 1..MaxJobs

JobModes == {"quick", "deep"}

\* The @celery_app.task names api/tasks.py registers; api.tasks.run_batch_enrich,
\* which /batch/run sends, is not one of them.
RegisteredTasks ==
    {"api.tasks.run_learning_job", "api.tasks.run_big_learning_job",
     "api.tasks.finalize_concept", "api.tasks.reconcile_neo4j_firestore"}

\* db.collection('jobs').document(job_id).set({'status': 'queued', ...}) followed by
\* celery_app.send_task(task, ...); setOk is whether set() succeeded.
NewJob(mode, task, setOk) ==
    [mode |-> mode, status |-> IF setOk THEN "queued" ELSE NoneValue,
     task |-> task, pc |-> "enqueued", job_ref |-> FALSE, faulted |-> ~setOk,
     errors |-> <<>>, concept_id |-> NoneValue, result |-> NoneValue,
     readFault |-> FALSE]

\* job_ref.update({'status': status, ...}) succeeds: Firestore is reachable and the
\* document exists (update() of a missing document raises NotFound).
UpdateSucceeds(job, ok) == ok /\ job.status # NoneValue

UpdateStatus(job, status, ok) ==
    IF UpdateSucceeds(job, ok) THEN [job EXCEPT !.status = status]
    ELSE [job EXCEPT !.faulted = TRUE]

\* POST /jobs/start: set() is not guarded, so a failed write ends the request before
\* send_task.
StartJob ==
    /\ \E id \in JobIds \ DOMAIN jobs, mode \in JobModes :
        jobs' = jobs @@ (id :> NewJob(mode, "api.tasks.run_learning_job", TRUE))
    /\ UNCHANGED <<db, index, lastRun, now, ticks, last, cands, chain, tasks, ranAt, refine, procs>>

\* POST /jobs/start_big
StartBigJob ==
    /\ \E id \in JobIds \ DOMAIN jobs :
        jobs' = jobs @@ (id :> NewJob("big", "api.tasks.run_big_learning_job", TRUE))
    /\ UNCHANGED <<db, index, lastRun, now, ticks, last, cands, chain, tasks, ranAt, refine, procs>>

\* POST /batch/run: a failed set() is swallowed and the task is sent all the same.
RunBatch ==
    /\ \E id \in JobIds \ DOMAIN jobs, setOk \in BOOLEAN :
        jobs' = jobs @@ (id :> NewJob("batch_enrich", "api.tasks.run_batch_enrich", setOk))
    /\ UNCHANGED <<db, index, lastRun, now, ticks, last, cands, chain, tasks, ranAt, refine, procs>>

\* POST /reconcile/run
RunReconcile ==
    /\ \E id \in JobIds \ DOMAIN jobs, setOk \in BOOLEAN :
        jobs' = jobs @@ (id :> NewJob("reconcile", "api.tasks.reconcile_neo4j_firestore",
                                      setOk))
    /\ UNCHANGED <<db, index, lastRun, now, ticks, last, cands, chain, tasks, ranAt, refine, procs>>

\* The concept id of the /jobs/finalize requests.
FinalizeConcept == "network"

\* POST /jobs/finalize
FinalizeJob ==
    /\ \E id \in JobIds \ DOMAIN jobs, setOk \in BOOLEAN :
        jobs' = jobs @@ (id :> [NewJob("finalize", "api.tasks.finalize_concept", setOk)
                                    EXCEPT !.concept_id = FinalizeConcept])
    /\ UNCHANGED <<db, index, lastRun, now, ticks, last, cands, chain, tasks, ranAt, refine, procs>>

\* The first statements of a task, up to the body.
\* run_learning_job, run_big_learning_job: the update to 'running' is outside any try,
\* so a failed update ends the task; run_big_learning_job has nothing after it.
\* finalize_concept, reconcile_neo4j_firestore: a failed update sets job_ref = None.
TaskBegin(job, ok) ==
    LET running == UpdateStatus(job, "running", ok) IN
    CASE job.task = "api.tasks.run_learning_job" ->
            [running EXCEPT !.pc = IF UpdateSucceeds(job, ok) THEN "body" ELSE "done",
                            !.job_ref = TRUE]
      [] job.task = "api.tasks.run_big_learning_job" ->
            [running EXCEPT !.pc = "done", !.job_ref = TRUE]
      [] OTHER ->
            [running EXCEPT !.pc = "body", !.job_ref = UpdateSucceeds(job, ok)]

\* An except handler that requeues the job instead of failing it.
run_learning_job_except_requeue(job, ok) ==
    [job EXCEPT !.status = "queued", !.pc = "enqueued"]

\* run_learning_job, except Exception: job_ref.update({'status': 'failed', ...});
\* return False.
run_learning_job_except(job, ok) ==
    [UpdateStatus(job, "failed", ok) EXCEPT
        !.pc = "done", !.errors = IF UpdateSucceeds(job, ok) THEN <<"str(e)">> ELSE @]

\* run_learning_job from the try on.  deep_learning() and quick_learn_unknowns() catch
\* every exception themselves, so what can raise in the try is the 'completed' update.
run_learning_job(job, ok1, ok2) ==
    IF UpdateSucceeds(job, ok1)
    THEN [UpdateStatus(job, "completed", ok1) EXCEPT !.pc = "done"]
    ELSE run_learning_job_except([job EXCEPT !.faulted = TRUE], ok2)

\* The end of finalize_concept and reconcile_neo4j_firestore: 'completed' when the
\* body returned, 'failed' when it raised, each only if job_ref and each with
\* its own failure swallowed.
GuardedTaskEnd(job, raised, ok) ==
    LET status == IF raised THEN "failed" ELSE "completed" IN
    [(IF job.job_ref THEN UpdateStatus(job, status, ok) ELSE job) EXCEPT
        !.pc = "done",
        !.errors = IF raised /\ job.job_ref /\ UpdateSucceeds(job, ok)
                   THEN <<"str(e)">> ELSE @]

\* Whether the body of a task can raise: finalize_concept guards every call of its
\* body; reconcile_neo4j_firestore calls fetch_nodes_by_status unguarded.
BodyRaises(task) ==
    IF task = "api.tasks.reconcile_neo4j_firestore" THEN BOOLEAN ELSE {FALSE}

\* A worker takes the task of job id off the queue and runs it up to its body.
TaskStart(id) ==
    /\ id \in DOMAIN jobs
    /\ jobs[id].pc = "enqueued"
    /\ jobs[id].task \in RegisteredTasks
    /\ \E ok \in BOOLEAN : jobs' = [jobs EXCEPT ![id] = TaskBegin(jobs[id], ok)]
    /\ UNCHANGED <<db, index, lastRun, now, ticks, last, cands, chain, tasks, ranAt, refine, procs>>

\* The environments of a learning job: the search backends and Groq, without
\* a Gemini key.  With nothing pending no provider is called.
JobEnvironments == {e \in DeepEnvironments : ~e.geminiKey}

JobEnvs(d) ==
    IF d.unknown_words = {} THEN {CHOOSE e \in JobEnvironments : TRUE}
    ELSE JobEnvironments

\* deep_learning() or quick_learn_unknowns() as run_learning_job calls it.  When
\* the pending list cannot be read, get_unknown_words logs the error and
\* returns [], so the cycle sees no pending concept and the store keeps them.
LearningCycle(mode, d, lr, t, env, readFault) ==
    LET seen == IF readFault THEN [d EXCEPT !.unknown_words = {}] ELSE d
        r    == IF mode = "deep"
                THEN [db |-> deep_learning(seen, env).db, lastRun |-> lr,
                      result |-> deep_learning(seen, env).results.status]
                ELSE [db |-> quick_learn_unknowns(seen, lr, t, env).db,
                      lastRun |-> quick_learn_unknowns(seen, lr, t, env).lastRun,
                      result |-> quick_learn_unknowns(seen, lr, t, env).results.status]
    IN  [r EXCEPT !.db.unknown_words = IF readFault THEN d.unknown_words ELSE @]

\* fetch_node(concept_id): <<>> when there is no such node or Neo4j cannot be
\* reached, else the node's properties, with or without a definition.
Nodes(c) ==
    {<<>>} \cup {<<[label |-> c, category |-> "Factual", definition |-> df]>> :
                    df \in {WebText, ""}}

\* The canonical document finalize_concept builds from the node.
FinalDoc(c, node) ==
    [id |-> c,
     label |-> IF node # <<>> THEN node[1].label ELSE c,
     category |-> IF node # <<>> THEN node[1].category ELSE "unknown",
     definition |-> IF node # <<>> THEN node[1].definition ELSE "",
     status |-> "final", source |-> "finalize_task"]

\* The body of finalize_concept: set() of the canonical document and the
\* upsert of label and definition into the vector index.
finalize_concept(d, ix, c, node) ==
    [db |-> [d EXCEPT !.solidified_knowledge = Put(@, c, FinalDoc(c, node))],
     index |-> upsert_knowledge(ix, c, FinalDoc(c, node).label \o ". "
                                        \o FinalDoc(c, node).definition)]

\* The task of job id runs from its body to its return.
TaskFinish(id) ==
    /\ id \in DOMAIN jobs
    /\ jobs[id].pc = "body"
    /\ \E ok1 \in BOOLEAN, ok2 \in BOOLEAN, raised \in BodyRaises(jobs[id].task) :
        CASE jobs[id].task = "api.tasks.run_learning_job" ->
                \E env \in JobEnvs(db), readFault \in BOOLEAN :
                    LET r == LearningCycle(jobs[id].mode, db, lastRun, now, env, readFault)
                    IN  /\ db' = r.db
                        /\ lastRun' = r.lastRun
                        /\ index' = index
                        /\ jobs' = [jobs EXCEPT ![id] =
                                run_learning_job([@ EXCEPT !.result = r.result,
                                                           !.readFault = readFault],
                                                 ok1, ok2)]
          [] jobs[id].task = "api.tasks.finalize_concept" ->
                \E node \in Nodes(jobs[id].concept_id) :
                    LET r == finalize_concept(db, index, jobs[id].concept_id, node)
                    IN  /\ db' = r.db
                        /\ index' = r.index
                        /\ lastRun' = lastRun
                        /\ jobs' = [jobs EXCEPT ![id] = GuardedTaskEnd(@, raised, ok1)]
          [] OTHER ->
                /\ jobs' = [jobs EXCEPT ![id] = GuardedTaskEnd(@, raised, ok1)]
                /\ UNCHANGED <<db, index, lastRun>>
    /\ UNCHANGED <<now, ticks, last, cands, chain, tasks, ranAt, refine, procs>>

NextJobs ==
    \/ StartJob
    \/ StartBigJob
    \/ RunBatch
    \/ RunReconcile
    \/ FinalizeJob
    \/ \E id \in JobIds : TaskStart(id) \/ TaskFinish(id)

SpecJobs == Init /\ [][NextJobs]_vars

\* A worker that has received a task runs it to its return.
SpecJobsLive ==
    /\ Init
    /\ [][NextJobs]_vars
    /\ \A id \in JobIds : WF_vars(TaskStart(id)) /\ WF_vars(TaskFinish(id))

\* Learning jobs alone, on a store with pending concepts.
NextLearningJob ==
    \/ StartJob
    \/ \E id \in JobIds : TaskStart(id) \/ TaskFinish(id)

SpecLearningJob == InitCycle /\ [][NextLearningJob]_vars

-----------------------------------------------------------------------------
(* logic/rethink.py: rethink_and_learn *)

\* The marker of a call that raises.
Raises == "<raises>"

\* The parts of the response.
RethinkOpening == "I understand that my previous answer wasn't correct."

RethinkResearching == "**Researching:**"

RethinkTrouble == "I'm having trouble finding information on this topic."

RethinkSynthesizing == "**Synthesizing new answer...**"

RethinkCorrected == "**Corrected Answer:**"

RethinkLearningNote == "I'm learning from this correction and will remember it."

\* original_prompt and incorrect_answer of the calls.
RethinkPrompts == {"network", "neural network"}

IncorrectAnswers == {"a wrong answer"}

\* The environments of a call: what the search backends and Groq do, whether
\* GEMINI_API_KEY is set, whether genai.configure and GenerativeModel succeed
\* (geminiClient), whether Gemini's generate_content answers inside
\* research_new_concept (geminiOk), and what response.text of the synthesis
\* call is (geminiAnswer; Raises when generate_content or .text raises).
RethinkEnvironments ==
    {[research |-> [c \in Concepts |-> r], groq |-> [c \in Concepts |-> g],
      wordnet |-> TRUE, geminiKey |-> gm[1], geminiClient |-> gm[2],
      geminiOk |-> gm[3], geminiAnswer |-> gm[4]] :
        r \in BOOLEAN, g \in GroqOutputs,
        gm \in {<<FALSE, FALSE, FALSE, Raises>>, <<TRUE, FALSE, FALSE, Raises>>}
               \cup {<<TRUE, TRUE, ok, a>> : ok \in BOOLEAN, a \in {GeminiText, "", Raises}}}

\* f"{x}" of a string or None
FormatValue(x) == IF x = NoneValue THEN "None" ELSE x

\* x[:n] raises TypeError for None; the texts of the model are shorter than n.
SliceRaises(x) == x = NoneValue

\* new_research = None, a variant of the assignment below
NoResearch_none == NoneValue

\* new_research = "" when nothing was found
NoResearch == ""

\* A fallback that is taken whatever the first provider returned.
NeedsFallback_always(x) == TRUE

\* if not new_research: / if not new_answer: the fast provider is called
NeedsFallback(x) == Falsy(x)

\* Step 1, targeted research: Gemini research under its own try, then
\* quick_research, then the notice.  Nothing here raises past the inner try:
\* quick_research guards each backend.
RethinkResearch(env, prompt) ==
    LET first  == IF env.geminiKey /\ env.geminiClient
                  THEN research_new_concept(env, prompt) ELSE NoneValue
        second == IF NeedsFallback(first) THEN quick_research(env, prompt) ELSE first
        calls  == (IF env.geminiKey THEN <<"gemini_research">> ELSE <<>>)
                    \o (IF NeedsFallback(first) THEN <<"quick_research">> ELSE <<>>)
    IN  IF Falsy(second)
        THEN [new_research |-> NoResearch, parts |-> <<RethinkTrouble>>, calls |-> calls]
        ELSE [new_research |-> second, parts |-> <<>>, calls |-> calls]

\* A learning note that also stores the corrected answer as known.
AddLearningNote_remember(st, prompt, new_answer) ==
    [st EXCEPT !.parts = Append(@, RethinkLearningNote),
               !.db = add_word(@, prompt, FormatValue(new_answer), TRUE, "")]

\* "# Add learning note": one more part of the response, and no write.
AddLearningNote(st, prompt, new_answer) ==
    [st EXCEPT !.parts = Append(@, RethinkLearningNote)]

\* Step 2, synthesis, on st = [db, index, parts, raised].  Building
\* final_prompt slices new_research; Gemini is tried under its own try and
\* Groq, which never raises, is the fallback.  The handler of the outer try
\* slices new_research again, outside any try.
RethinkSynthesis(st, env, prompt, new_research) ==
    IF SliceRaises(new_research)
    THEN [st EXCEPT !.raised = TRUE]
    ELSE LET gemini == IF env.geminiKey /\ env.geminiClient /\ env.geminiAnswer # Raises
                       THEN env.geminiAnswer ELSE NoneValue
             new_answer == IF NeedsFallback(gemini) THEN groq_generate_text(env, prompt)
                           ELSE gemini
             calls == (IF env.geminiKey THEN <<"gemini_synthesis">> ELSE <<>>)
                        \o (IF NeedsFallback(gemini) THEN <<"groq_generate_text">>
                            ELSE <<>>)
         IN  AddLearningNote(
                 [st EXCEPT !.parts = @ \o <<RethinkCorrected, FormatValue(new_answer)>>,
                            !.calls = @ \o calls],
                 prompt, new_answer)

\* rethink_and_learn(original_prompt, incorrect_answer) on the store d and the
\* vector index ix: the stores after the call, whether the call raised, and
\* the parts of the response it returns.
rethink_and_learn(d, ix, env, original_prompt, incorrect_answer) ==
    LET found == RethinkResearch(env, original_prompt)
        st    == [db |-> d, index |-> ix, raised |-> FALSE, calls |-> found.calls,
                  parts |-> <<RethinkOpening, RethinkResearching>> \o found.parts
                            \o <<RethinkSynthesizing>>]
    IN  RethinkSynthesis(st, env, original_prompt, found.new_research)

\* A call of rethink_and_learn.
Rethink ==
    /\ \E env \in RethinkEnvironments, prompt \in RethinkPrompts,
          incorrect \in IncorrectAnswers :
        LET r == rethink_and_learn(db, index, env, prompt, incorrect)
        IN  /\ db' = r.db
            /\ index' = r.index
            /\ last' = [op |-> "rethink", env |-> env, prompt |-> prompt,
                        incorrect |-> incorrect, raised |-> r.raised, calls |-> r.calls,
                        response |-> IF r.raised THEN <<>> ELSE r.parts]
    /\ UNCHANGED <<lastRun, now, ticks, cands, chain, tasks, ranAt, refine, jobs, procs>>

\* The stores a call can find: concepts pending, or one of them learned.
RethinkStores ==
    {PendingStore, add_word(PendingStore, "network", WebText, TRUE, "Factual")}

RethinkIndexes == {EmptyDict, UpsertAll(EmptyDict, SetToSeq(SeedItems))}

InitRethink ==
    /\ db \in RethinkStores
    /\ index \in RethinkIndexes
    /\ lastRun = <<>>
    /\ now = 0
    /\ ticks = 0
    /\ last = Idle
    /\ cands = Idle
    /\ chain = Idle
    /\ tasks = EmptyDict
    /\ ranAt = <<>>
    /\ refine = NoRefinement
    /\ jobs = NoJobs
    /\ procs = NoProcs

NextRethink == Rethink

SpecRethink == InitRethink /\ [][NextRethink]_vars

\* One refinement task and one recovery task running side by side over a
\* store and an index that already hold entries.
NextScheduler ==
    \/ refine.objects = <<>> /\ ScheduleRefinement
    \/ ClearTask
    \/ LearnRelated
    \/ \E th \in 1..MaxSchedules : RefineWake(th) \/ RefineEnd(th)
    \/ Tick(REFINEMENT_INTERVAL)
    \/ tasks = EmptyDict /\ ScheduleRecovery
    \/ \E id \in TaskIds : RecoveryThread(id)

SpecScheduler == InitRethink /\ [][NextScheduler]_vars

-----------------------------------------------------------------------------
(* learning_cycle.py: trigger_learning_cycle, one call on three pending
   words *)

\* What is_valid_word_api does for a word: status 200, another status, or
\* requests.get raising.
Validations == {"valid", "invalid", "raises"}

\* The collaborators of one cycle: the dictionary API per word, whether the
\* web search finds text per word, whether WordNet has synsets per word, and
\* the Gemini model (configured or not, answering or raising).
ScheduledEnvironments ==
    {[valid |-> v, research |-> r, synsets |-> sy, geminiKey |-> gm[1], geminiOk |-> gm[2]] :
        v \in [Concepts -> Validations], r \in [Concepts -> BOOLEAN],
        sy \in [Concepts -> BOOLEAN],
        gm \in {<<FALSE, FALSE>>, <<TRUE, FALSE>>, <<TRUE, TRUE>>}}

\* categorize_text(explanation, gemini_model): "" when the model raises
categorize_text(env) == IF env.geminiOk THEN GeminiCategory ELSE ""

\* The loop state of a cycle: the store, the words reached, researched,
\* categorized and removed, and the word at which an exception left the loop.
CycleStart(d) ==
    [db |-> d, visited |-> <<>>, researched |-> {}, categorized |-> {},
     removed |-> {}, aborted |-> <<>>]

\* A rejected word that stays in the pending collection.
RejectWord_keep(st, word) == [st EXCEPT !.removed = @ \cup {word}]

\* db.collection('unknown_words').document(word).delete(); continue
RejectWord(st, word) ==
    [st EXCEPT !.db.unknown_words = @ \ {word}, !.removed = @ \cup {word}]

\* relationship_mapper.find_and_map_relationships as the cycle calls it: no
\* synsets, nothing; else update() of the solidified_knowledge document,
\* which raises when the document does not exist.
MapRelationships(st, env, word) ==
    IF ~env.synsets[word] THEN st
    ELSE IF word \in DOMAIN st.db.solidified_knowledge
    THEN [st EXCEPT !.db.solidified_knowledge[word] =
              [related_to |-> "hypernyms", subtopics |-> "hyponyms"] @@ @]
    ELSE [st EXCEPT !.aborted = <<word>>]

\* The body of the loop for one word (lines 53-77).
ProcessWord(st, env, word) ==
    LET at == [st EXCEPT !.visited = Append(@, word)] IN
    CASE env.valid[word] = "raises" -> [at EXCEPT !.aborted = <<word>>]
      [] env.valid[word] = "invalid" -> RejectWord(at, word)
      [] OTHER ->
            IF ~env.geminiKey THEN at
            ELSE LET searched == [at EXCEPT !.researched = @ \cup {word}] IN
                 IF research_new_concept(env, word) = "" THEN searched
                 ELSE MapRelationships(
                        [searched EXCEPT
                            !.categorized = @ \cup {word},
                            !.db = add_word(@, word, research_new_concept(env, word),
                                            TRUE, categorize_text(env))],
                        env, word)

\* for word_doc in unknown_words, left by the first exception
RECURSIVE ProcessAll(_, _, _)
ProcessAll(st, env, words) ==
    IF Len(words) = 0 \/ st.aborted # <<>> THEN st
    ELSE ProcessAll(ProcessWord(st, env, Head(words)), env, Tail(words))

trigger_learning_cycle(d, env) == ProcessAll(CycleStart(d), env, get_unknown_words(d))

\* The stores a cycle starts on: three pending words, none or one of which
\* has a solidified_knowledge document.
ScheduledStores ==
    {PendingStore,
     [PendingStore EXCEPT !.solidified_knowledge =
        Put(@, "network", [definition |-> WebText])]}

InitScheduled ==
    /\ db \in ScheduledStores
    /\ index = EmptyDict
    /\ lastRun = <<>>
    /\ now = 0
    /\ ticks = 0
    /\ last \in {[op |-> "scheduled", env |-> e] : e \in ScheduledEnvironments}
    /\ cands = Idle
    /\ chain = Idle
    /\ tasks = EmptyDict
    /\ ranAt = <<>>
    /\ refine = NoRefinement
    /\ jobs = NoJobs
    /\ procs = NoProcs

\* One call of trigger_learning_cycle().
TriggerLearningCycle ==
    /\ last.op = "scheduled"
    /\ LET st == trigger_learning_cycle(db, last.env)
       IN  /\ db' = st.db
           /\ last' = [op |-> "trigger_learning_cycle", env |-> last.env,
                       listing |-> get_unknown_words(db),
                       visited |-> st.visited, researched |-> st.researched,
                       categorized |-> st.categorized, removed |-> st.removed,
                       aborted |-> st.aborted]
    /\ UNCHANGED <<index, lastRun, now, ticks, cands, chain, tasks, ranAt, refine, jobs, procs>>

NextScheduled == TriggerLearningCycle

SpecScheduled == InitScheduled /\ [][NextScheduled]_vars

-----------------------------------------------------------------------------
(* logic/advanced_learning.py: cycles running concurrently.                *)
(* procs[p] = [kind, pc, env, words, exists, wrote, status, read, readAt]:  *)
(* a call of                                                               *)
(* quick_learn_unknowns (kind "quick") or deep_learning (kind "deep") by   *)
(* caller p.  Each step is one read or write of shared state (the          *)
(* Firestore collections, _last_learning_run) with the local computation   *)
(* around it; research and provider calls touch no shared state.           *)

\* The known_words document a cycle writes for a word, <<>> when the cycle
\* gets no explanation or its categorisation raises.
CycleDoc(kind, env, word) ==
    IF kind = "quick"
    THEN IF Falsy(Explanation(env, word)) \/ groq_generate_text(env, word) = NoneValue
         THEN <<>>
         ELSE <<KnownDoc(Explanation(env, word), groq_generate_text(env, word))>>
    ELSE IF Falsy(DeepExplanation(env, word)) THEN <<>>
         ELSE <<KnownDoc(DeepExplanation(env, word), DeepCategory(env))>>

\* A call that has not yet run its first statement.
NewCycle(kind, env) ==
    [kind |-> kind, pc |-> IF kind = "quick" THEN "gate" ELSE "list", env |-> env,
     words |-> <<>>, exists |-> FALSE, wrote |-> <<>>, status |-> "started",
     read |-> <<>>, readAt |-> 0]

\* The end of a loop iteration: the next word, or what follows the loop.
NextWord(pr) ==
    LET rest == Tail(pr.words)
    IN  [pr EXCEPT !.words = rest,
                   !.pc = IF rest # <<>> THEN "set"
                          ELSE IF pr.kind = "deep" THEN "deepen" ELSE "done",
                   !.status = IF rest = <<>> /\ pr.kind = "quick" THEN "completed" ELSE @]

\* if not should_run_learning(): return skipped
CycleGate(p) ==
    /\ p \in DOMAIN procs
    /\ procs[p].pc = "gate"
    /\ procs' = [procs EXCEPT ![p] =
                    IF should_run_learning(lastRun, now)
                    THEN [@ EXCEPT !.pc = "stamp", !.read = lastRun, !.readAt = now]
                    ELSE [@ EXCEPT !.pc = "done", !.status = "skipped",
                                   !.read = lastRun, !.readAt = now]]
    /\ UNCHANGED <<db, index, lastRun, now, ticks, last, cands, chain, tasks, ranAt, refine, jobs>>

\* _last_learning_run = time.time()
CycleStamp(p) ==
    /\ p \in DOMAIN procs
    /\ procs[p].pc = "stamp"
    /\ lastRun' = <<now>>
    /\ procs' = [procs EXCEPT ![p].pc = "list"]
    /\ UNCHANGED <<db, index, now, ticks, last, cands, chain, tasks, ranAt, refine, jobs>>

\* unknown_words = get_unknown_words(), and the slice [:3] of the quick cycle
CycleList(p) ==
    /\ p \in DOMAIN procs
    /\ procs[p].pc = "list"
    /\ LET words == IF procs[p].kind = "quick" THEN Batch(db) ELSE get_unknown_words(db)
       IN  procs' = [procs EXCEPT ![p] =
                IF words # <<>> THEN [@ EXCEPT !.words = words, !.pc = "set"]
                ELSE IF @.kind = "deep" THEN [@ EXCEPT !.pc = "deepen"]
                ELSE [@ EXCEPT !.pc = "done", !.status = "no_unknowns"]]
    /\ UNCHANGED <<db, index, lastRun, now, ticks, last, cands, chain, tasks, ranAt, refine, jobs>>

\* A promotion that deletes the pending entry before the known record is
\* written.
CycleSet_delete_first(p) ==
    /\ p \in DOMAIN procs
    /\ procs[p].pc = "set"
    /\ db' = [db EXCEPT !.unknown_words = @ \ {Head(procs[p].words)}]
    /\ procs' = [procs EXCEPT ![p].pc = "exists"]
    /\ UNCHANGED <<index, lastRun, now, ticks, last, cands, chain, tasks, ranAt, refine, jobs>>

\* The loop body up to add_word's known_ref.set(data); a word without an
\* explanation, or whose categorisation raises, is skipped with an error.
CycleSet(p) ==
    /\ p \in DOMAIN procs
    /\ procs[p].pc = "set"
    /\ LET word == Head(procs[p].words)
           doc  == CycleDoc(procs[p].kind, procs[p].env, word)
       IN  IF doc = <<>>
           THEN /\ procs' = [procs EXCEPT ![p] = NextWord(@)]
                /\ db' = db
           ELSE /\ db' = [db EXCEPT !.known_words = Put(@, word, doc[1])]
                /\ procs' = [procs EXCEPT ![p].pc = "exists", ![p].wrote = doc]
    /\ UNCHANGED <<index, lastRun, now, ticks, last, cands, chain, tasks, ranAt, refine, jobs>>

\* add_word: unknown_ref.get().exists
CycleExists(p) ==
    /\ p \in DOMAIN procs
    /\ procs[p].pc = "exists"
    /\ LET exists == Head(procs[p].words) \in db.unknown_words
       IN  procs' = [procs EXCEPT ![p].exists = exists,
                                  ![p].pc = IF exists THEN "delete" ELSE "map"]
    /\ UNCHANGED <<db, index, lastRun, now, ticks, last, cands, chain, tasks, ranAt, refine, jobs>>

\* add_word: unknown_ref.delete()
CycleDelete(p) ==
    /\ p \in DOMAIN procs
    /\ procs[p].pc = "delete"
    /\ db' = [db EXCEPT !.unknown_words = @ \ {Head(procs[p].words)}]
    /\ procs' = [procs EXCEPT ![p].pc = "map"]
    /\ UNCHANGED <<index, lastRun, now, ticks, last, cands, chain, tasks, ranAt, refine, jobs>>

\* find_and_map_relationships(word), and the end of the loop body
CycleMap(p) ==
    /\ p \in DOMAIN procs
    /\ procs[p].pc = "map"
    /\ db' = find_and_map_relationships(db, procs[p].env, Head(procs[p].words))
    /\ procs' = [procs EXCEPT ![p] = NextWord(@)]
    /\ UNCHANGED <<index, lastRun, now, ticks, last, cands, chain, tasks, ranAt, refine, jobs>>

\* The second loop of deep_learning, which writes solidified_knowledge only.
CycleDeepen(p) ==
    /\ p \in DOMAIN procs
    /\ procs[p].pc = "deepen"
    /\ db' = DeepenAll([db |-> db, learned_unknown |-> 0, deepened_known |-> 0,
                        errors |-> <<>>], procs[p].env, KnownDocs(db)).db
    /\ procs' = [procs EXCEPT ![p].pc = "done", ![p].status = "completed"]
    /\ UNCHANGED <<index, lastRun, now, ticks, last, cands, chain, tasks, ranAt, refine, jobs>>

\* A step of a call, up to the end of the loop over the pending concepts.
CycleStep(p) ==
    \/ CycleGate(p)
    \/ CycleStamp(p)
    \/ CycleList(p)
    \/ CycleSet(p)
    \/ CycleExists(p)
    \/ CycleDelete(p)
    \/ CycleMap(p)

\* One concept is pending when a quick cycle and a deep cycle start.
RaceWord == "neural"

RaceStore == [DeepStore EXCEPT !.unknown_words = {RaceWord}]

RaceQuickEnvs ==
    {[research |-> [c \in Concepts |-> r], groq |-> [c \in Concepts |-> g],
      wordnet |-> TRUE] : r \in BOOLEAN, g \in GroqOutputs}

RaceDeepEnvs ==
    {[research |-> [c \in Concepts |-> r], groq |-> [c \in Concepts |-> g],
      wordnet |-> TRUE, geminiKey |-> gm[1], geminiOk |-> gm[2]] :
        r \in BOOLEAN, g \in GroqOutputs \ {NoneValue},
        gm \in {<<FALSE, FALSE>>, <<TRUE, FALSE>>, <<TRUE, TRUE>>}}

InitRace ==
    /\ db = RaceStore
    /\ index = EmptyDict
    /\ lastRun = <<>>
    /\ now = 0
    /\ ticks = 0
    /\ last = Idle
    /\ cands = Idle
    /\ chain = Idle
    /\ tasks = EmptyDict
    /\ ranAt = <<>>
    /\ refine = NoRefinement
    /\ jobs = NoJobs
    /\ \E qe \in RaceQuickEnvs, de \in RaceDeepEnvs :
        procs = [p \in {"quick", "deep"} |->
                    IF p = "quick" THEN NewCycle("quick", qe) ELSE NewCycle("deep", de)]

NextRace == \E p \in {"quick", "deep"} : CycleStep(p) \/ CycleDeepen(p)

SpecRace == InitRace /\ [][NextRace]_vars

\* Two calls of quick_learn_unknowns made concurrently, with the clock.
GateEnv == [research |-> [c \in Concepts |-> TRUE], groq |-> [c \in Concepts |-> LlmText],
            wordnet |-> TRUE]

InitGate ==
    /\ db = RaceStore
    /\ index = EmptyDict
    /\ lastRun = <<>>
    /\ now = 0
    /\ ticks = 0
    /\ last = Idle
    /\ cands = Idle
    /\ chain = Idle
    /\ tasks = EmptyDict
    /\ ranAt = <<>>
    /\ refine = NoRefinement
    /\ jobs = NoJobs
    /\ procs = [p \in {"quick", "quick2"} |-> NewCycle("quick", GateEnv)]

NextGate ==
    \/ \E p \in {"quick", "quick2"} : CycleStep(p)
    \/ \E d \in TickSteps : Tick(d)

SpecGate == InitGate /\ [][NextGate]_vars

-----------------------------------------------------------------------------
(* Claims *)

\* C1 (as claimed): at every quiescent point no concept key is at the same
\* time in the pending set (unknown_words) and in the known set (known_words).
C1_SetExclusivity == db.unknown_words \cap DOMAIN db.known_words = {}

\* What C2 compares: the known and pending membership of every concept and
\* the explanation and category stored for word.
Membership(d, word) ==
    [known   |-> DOMAIN d.known_words,
     pending |-> d.unknown_words,
     doc     |-> IF is_known(d, word) THEN d.known_words[word] ELSE [explanation |-> NoneValue]]

\* C2: add_word(c, X, is_known=True, category) called twice with the same
\* fields leaves the memberships of every concept and the explanation and
\* category of c as one call leaves them, and c is not pending after one call
\* or after two; the document a promotion has written holds the fields given.
C2_IdempotentPromotion ==
    /\ \A e \in Entries :
        LET once  == add_word(db, e.word, e.definition, TRUE, e.category)
            twice == add_word(once, e.word, e.definition, TRUE, e.category)
        IN  /\ Membership(twice, e.word) = Membership(once, e.word)
            /\ e.word \notin once.unknown_words
            /\ e.word \notin twice.unknown_words
    /\ last.op = "persist_entry" =>
        /\ last.entry.word \notin db.unknown_words
        /\ is_known(db, last.entry.word)
        /\ db.known_words[last.entry.word] = KnownDoc(last.entry.definition, last.entry.category)

\* C2 witness: a promotion has just moved a pending concept to known.
C2_Witness ==
    /\ last.op = "persist_entry"
    /\ last.wasPending
    /\ is_known(db, last.entry.word)
    /\ last.entry.word \notin db.unknown_words

\* C3: a call of quick_learn_unknowns made less than LEARNING_INTERVAL seconds
\* after the previous call that was not skipped returns status "skipped"; a
\* call made LEARNING_INTERVAL seconds or more after it is not skipped and
\* runs a cycle, as does the first call.
C3_RateLimitGate ==
    last.op = "quick_learn" =>
        /\ last.prevRanAt = <<>> => last.results.status # "skipped"
        /\ last.prevRanAt # <<>> =>
            /\ (last.at - last.prevRanAt[1] < LEARNING_INTERVAL)
                    => last.results.status = "skipped"
            /\ (last.at - last.prevRanAt[1] >= LEARNING_INTERVAL)
                    => /\ last.results.status \in {"completed", "no_unknowns"}
                       /\ ranAt = <<last.at>>

\* C3 witness: a call made exactly LEARNING_INTERVAL seconds after the
\* previous run has run a cycle.
C3_Witness ==
    /\ last.op = "quick_learn"
    /\ last.prevRanAt # <<>>
    /\ last.at - last.prevRanAt[1] = LEARNING_INTERVAL
    /\ last.results.status = "completed"

\* C4 (as claimed): in a run in which exactly one concept of the batch gets
\* no explanation and nothing else goes wrong, every other concept of the
\* batch is promoted to known and the error list holds exactly one entry, a
\* structured one that names the failed concept.
C4_BatchIsolation ==
    (/\ last.op = "quick_learn"
     /\ last.results.status = "completed"
     /\ Cardinality(last.unexplained) = 1
     /\ last.raised = {})
    => /\ \A w \in Range(last.batch) \ last.unexplained : is_known(db, w)
       /\ Len(last.results.errors) = 1
       /\ last.results.errors[1].kind = "dict"
       /\ last.results.errors[1].word \in last.unexplained

\* C6: with the services up and a nearest concept found, the confident branch
\* is taken exactly when the distance is below the threshold: 0.59 is
\* confident, 0.60 and above are weak.
C6_ThresholdBoundary ==
    (last.op = "ask" /\ last.healthOk /\ last.hit.found) =>
        /\ last.branch \in {"confident", "weak"}
        /\ last.branch = "confident" <=> last.hit.score < Threshold
        /\ last.hit.score = Threshold - 1 => last.branch = "confident"
        /\ last.hit.score >= Threshold => last.branch = "weak"
        /\ last.branch = "confident" => last.response.synthesized_answer = last.hit.document
        /\ last.branch = "weak" => last.response.synthesized_answer = DontKnowAnswer

\* C6 witness: a nearest concept exactly at the threshold was answered as a
\* weak match.
C6_Witness ==
    /\ last.op = "ask"
    /\ last.healthOk
    /\ last.hit.found
    /\ last.hit.score = Threshold
    /\ last.branch = "weak"

\* C7: a recovery task never counts more attempts than max_attempts; one
\* that ends without any attempt having improved the answer ends with status
\* "failed" and attempts equal to max_attempts; and every scheduled task ends.
C7_BoundedRetries ==
    /\ [](\A id \in DOMAIN tasks :
            /\ tasks[id].attempts <= tasks[id].max_attempts
            /\ tasks[id].status \in {"pending", "failed", "recovered"}
            /\ (tasks[id].status # "pending" /\ tasks[id].improved_response = NoneValue)
                => /\ tasks[id].status = "failed"
                   /\ tasks[id].attempts = tasks[id].max_attempts)
    /\ \A id \in TaskIds :
        (id \in DOMAIN tasks) ~> (id \in DOMAIN tasks /\ tasks[id].status # "pending")

\* C7 witness: a task with the most attempts allowed has failed after
\* exactly that many.
C7_Witness ==
    \E id \in DOMAIN tasks :
        /\ tasks[id].max_attempts = MaxAttemptsBound
        /\ tasks[id].status = "failed"
        /\ tasks[id].attempts = MaxAttemptsBound
        /\ tasks[id].improved_response = NoneValue

\* C8 (as claimed): a prompt asked again after a quick cycle has promoted its
\* concept to known with a non-empty definition is answered with a confident
\* match whose answer is the stored definition.
C8_EndToEnd ==
    (/\ last.op = "ask"
     /\ last.healthOk
     /\ last.knownBefore # {}
     /\ \A c \in last.knownBefore : db.known_words[c].explanation # "")
    => /\ last.branch = "confident"
       /\ \E c \in last.knownBefore :
            last.response.synthesized_answer = db.known_words[c].explanation

\* C5 (as claimed): for generate_text with preference order [A, B] where A
\* fails and B succeeds, A is called before B and the result is B's output
\* tagged with provider B.
C5_FallbackOrder ==
    (/\ chain.op = "generate_text"
     /\ chain.prefer # <<>>
     /\ Len(chain.prefer[1]) = 2
     /\ Falsy(chain.env[chain.prefer[1][1]])
     /\ ~Falsy(chain.env[chain.prefer[1][2]]))
    => /\ chain.result.kind = "return"
       /\ chain.result.calls = chain.prefer[1]
       /\ chain.result.response = chain.env[chain.prefer[1][2]]
       /\ chain.result.provider = ProviderTag(chain.prefer[1][2])

\* C9: in the candidate set detect_and_log_unknown_words keeps, no
\* whitespace-separated token of a retained multi-word phrase is itself a
\* candidate.
C9_DedupPhraseToken ==
    cands.op = "extracted" =>
        \A ph \in cands.dedup_candidates :
            HasBlank(ph) => Range(Split(ph)) \cap cands.dedup_candidates = {}

\* C9 witness: the extraction found a phrase and one of its tokens, and kept
\* the phrase only.
C9_Witness ==
    /\ cands.op = "extracted"
    /\ \E ph \in cands.dedup_candidates :
        /\ HasBlank(ph)
        /\ Range(Split(ph)) \cap cands.raw # {}
        /\ Range(Split(ph)) \cap cands.dedup_candidates = {}

\* C10 (as claimed): no step puts a concept that has a known record and is
\* not pending into the pending set.
C10_NoKnownToPending ==
    [][\A c \in Concepts :
        (is_known(db, c) /\ c \notin db.unknown_words) => c \notin db'.unknown_words]_vars

\* C11 (as claimed): whenever a learning cycle brings a concept to learned,
\* the concept leaves the pending set, enters the known set and is upserted
\* into the vector index.
C11_PromotionWrites ==
    (last.op = "quick_learn" /\ last.results.status = "completed") =>
        \A w \in Range(last.batch) \ (last.unexplained \cup last.raised) :
            /\ w \notin db.unknown_words
            /\ is_known(db, w)
            /\ w \in DOMAIN index

\* C12: a concept for which a quick or deep cycle obtains no explanation, or
\* whose processing raises, is pending after the cycle as it was before it,
\* has the known record it had before (none, if it had none), and is among
\* the pending concepts the next cycle reads.
C12_FailedStaysPending ==
    [][(last' # last /\ last'.op \in {"quick_learn", "deep_learn"}
            /\ last'.results.status = "completed")
       => \A w \in last'.unexplained \cup last'.raised :
            /\ w \in db.unknown_words
            /\ w \in db'.unknown_words
            /\ is_known(db', w) <=> is_known(db, w)
            /\ is_known(db, w) => db'.known_words[w] = db.known_words[w]
            /\ \E i \in DOMAIN get_unknown_words(db') : get_unknown_words(db')[i] = w]_vars

\* C12 witness: a deep cycle has learned one concept and failed on another,
\* which is still pending and not known.
C12_Witness ==
    /\ last.op = "deep_learn"
    /\ last.results.learned_unknown > 0
    /\ \E w \in last.unexplained : w \in db.unknown_words /\ ~is_known(db, w)

\* The preference order a call of generate_text walks.
OrderOf(prefer) == IF prefer = <<>> THEN DefaultPrefer ELSE prefer[1]

\* C13 (as claimed): if every provider of the preference order fails,
\* generate_text fails with the all-providers-unavailable error and returns
\* no value.
C13_AllProvidersUnavailable ==
    (/\ chain.op = "generate_text"
     /\ \A i \in DOMAIN OrderOf(chain.prefer) : Falsy(chain.env[OrderOf(chain.prefer)[i]]))
    => /\ chain.result.kind = "raise"
       /\ chain.result.error = "RuntimeError"

\* C14 (as claimed): a provider that is not configured or not reachable does
\* not make generate_text fail: when some provider of the order answers, the
\* call returns the answer of the first one that does, whatever identifiers
\* of the default order come before it.
C14_SingleProviderNonFatal ==
    (/\ chain.op = "generate_text"
     /\ \E i \in DOMAIN OrderOf(chain.prefer) : ~Falsy(chain.env[OrderOf(chain.prefer)[i]]))
    => LET order == OrderOf(chain.prefer)
           first == CHOOSE i \in DOMAIN order :
                        /\ ~Falsy(chain.env[order[i]])
                        /\ \A j \in 1..(i - 1) : Falsy(chain.env[order[j]])
       IN  /\ chain.result.kind = "return"
           /\ chain.result.response = chain.env[order[first]]
           /\ chain.result.provider = ProviderTag(order[first])

\* C15 (as claimed): in a cycle, a concept for which every research backend
\* and the synthesis provider are unavailable is not promoted, has an error
\* entry recorded for it and stays pending.
C15_ProviderExhaustion ==
    (last.op = "quick_learn" /\ last.results.status = "completed") =>
        \A w \in last.exhausted :
            /\ w \in db.unknown_words
            /\ ~is_known(db, w)
            /\ \E i \in DOMAIN last.results.errors :
                \/ /\ last.results.errors[i].kind = "str"
                   /\ last.results.errors[i].text = StringError(w).text
                \/ /\ last.results.errors[i].kind = "dict"
                   /\ last.results.errors[i].word = w

\* C16: a refinement thread whose attempt raised has set the status of the
\* task it was refining to "error" and has left its loop; from then on it
\* makes no attempt, and the step in which it stops sets no timer.
C16_RefinementCircuitBreaker ==
    /\ [](\A th \in DOMAIN refine.threads :
            refine.threads[th].pc = "broken" =>
                refine.objects[refine.threads[th].task].status = "error")
    /\ [][\A th \in DOMAIN refine.threads :
            /\ refine.threads[th].pc = "broken" => refine'.threads[th] = refine.threads[th]
            /\ (/\ refine.threads[th].pc = "refining"
                /\ refine'.threads[th].pc # "refining"
                /\ RefineRaises(refine.objects[refine.threads[th].task].knowledge))
               => /\ refine'.threads[th].pc = "broken"
                  /\ refine'.timers = refine.timers]_vars

\* C16 witness: a thread has stopped on an error while time went on past the
\* next interval.
C16_Witness ==
    \E th \in DOMAIN refine.threads :
        /\ refine.threads[th].pc = "broken"
        /\ refine.objects[refine.threads[th].task].status = "error"
        /\ refine.threads[th].topic \in DOMAIN refine.timers
        /\ now >= refine.timers[refine.threads[th].topic] + REFINEMENT_INTERVAL

\* C17 (as claimed): every recovery attempt performs web research and
\* regeneration; a task is recovered only with a regenerated answer that
\* differs from the failed response, and with its last attempt being the one
\* that regenerated it; a task that is failed has used all its attempts.
C17_RecoveryEarlyStop ==
    \A id \in DOMAIN tasks :
        /\ tasks[id].regenerations = tasks[id].attempts
        /\ tasks[id].status = "recovered" =>
            /\ tasks[id].improved_response # NoneValue
            /\ tasks[id].improved_response # tasks[id].failed_response
        /\ tasks[id].status = "failed" => tasks[id].attempts = tasks[id].max_attempts

\* C18: job status is monotonic.  In every step, every job record keeps its
\* status or moves it one step forward along queued -> running ->
\* (completed | failed): a completed or failed job never changes status
\* again, no job returns to queued or running, and a record that is created
\* starts as queued.
C18_JobStatusMonotonic ==
    [][ /\ \A id \in DOMAIN jobs :
            /\ id \in DOMAIN jobs'
            /\ \/ jobs'[id].status = jobs[id].status
               \/ <<jobs[id].status, jobs'[id].status>> \in
                    {<<"queued", "running">>, <<"running", "completed">>,
                     <<"running", "failed">>}
        /\ \A id \in DOMAIN jobs' \ DOMAIN jobs :
            jobs'[id].status \in {"queued", NoneValue} ]_vars

\* Two jobs have run to their ends, one completed and one failed.
C18_Witness ==
    \E a \in DOMAIN jobs, b \in DOMAIN jobs :
        /\ jobs[a].status = "completed" /\ jobs[a].pc = "done"
        /\ jobs[b].status = "failed" /\ jobs[b].pc = "done"

\* C19: rethink never raises.  Every call of rethink_and_learn, whatever the
\* research and synthesis providers do (unconfigured, empty result,
\* exception), returns a response text: it opens with the acknowledgement
\* and always carries the synthesis section; a research stage that found
\* nothing only adds its notice to the response.
C19_RethinkNeverRaises ==
    last.op = "rethink" =>
        /\ ~last.raised
        /\ Len(last.response) >= 3
        /\ last.response[1] = RethinkOpening
        /\ RethinkSynthesizing \in Range(last.response)
        /\ RethinkCorrected \in Range(last.response)
        /\ (Falsy(quick_research(last.env, last.prompt))
                => RethinkTrouble \in Range(last.response))

\* A call in which research found nothing, Gemini raised and Groq was not
\* available has returned a response.
C19_Witness ==
    /\ last.op = "rethink"
    /\ Falsy(quick_research(last.env, last.prompt))
    /\ last.env.geminiKey /\ last.env.geminiClient /\ last.env.geminiAnswer = Raises
    /\ groq_generate_text(last.env, last.prompt) = GroqFailureMessage
    /\ RethinkTrouble \in Range(last.response)

\* C20: rethink writes nothing.  A step that is a call of rethink_and_learn
\* leaves the known set, the pending set, the stored definitions (db) and the
\* vector index unchanged.
C20_RethinkWritesNothing ==
    [][(last'.op = "rethink" /\ last' # last) => (db' = db /\ index' = index)]_vars

\* A call that synthesized a corrected answer has returned while the store
\* holds a known concept, pending concepts and a seeded index.
C20_Witness ==
    /\ last.op = "rethink"
    /\ RethinkLearningNote \in Range(last.response)
    /\ DOMAIN db.known_words # {}
    /\ db.unknown_words # {}
    /\ index # EmptyDict

\* C21: concurrent quick and deep cycles converge.  When a quick cycle and a
\* deep cycle have both written the same pending concept and both have
\* finished, under every interleaving of their store operations the concept
\* is known, its record is the whole record one of the two cycles wrote
\* (explanation and category of the same cycle), and it is not pending.
C21_ConcurrentCyclesConverge ==
    ( /\ DOMAIN procs = {"quick", "deep"}
      /\ \A p \in DOMAIN procs : procs[p].pc = "done" /\ procs[p].wrote # <<>> )
    => /\ RaceWord \in DOMAIN db.known_words
       /\ db.known_words[RaceWord] \in {procs["quick"].wrote[1], procs["deep"].wrote[1]}
       /\ RaceWord \notin db.unknown_words

\* Both cycles wrote the concept, with different records, and both finished.
C21_Witness ==
    /\ DOMAIN procs = {"quick", "deep"}
    /\ \A p \in DOMAIN procs : procs[p].pc = "done" /\ procs[p].wrote # <<>>
    /\ procs["quick"].wrote # procs["deep"].wrote
    /\ "category" \in DOMAIN procs["quick"].wrote[1]
    /\ "category" \notin DOMAIN procs["deep"].wrote[1]

\* C22: the quick-mode gate is a soft gate, not a lock.  Whether a call
\* passes depends only on the value of _last_learning_run it read: a call
\* that read it unset or at least LEARNING_INTERVAL seconds old runs a cycle
\* whatever other calls are doing, so two calls that both read it before
\* either wrote it both run a cycle.
C22_SoftGate ==
    \A p \in DOMAIN procs :
        (procs[p].kind = "quick" /\ procs[p].pc # "gate") =>
            ( procs[p].status # "skipped"
              <=> ( \/ procs[p].read = <<>>
                    \/ procs[p].readAt - procs[p].read[1] >= LEARNING_INTERVAL ) )

\* Two concurrent calls both read _last_learning_run before either wrote
\* it, and both ran a cycle to its end.
C22_Witness ==
    /\ DOMAIN procs = {"quick", "quick2"}
    /\ \A p \in DOMAIN procs :
        /\ procs[p].pc = "done"
        /\ procs[p].status \in {"completed", "no_unknowns"}
        /\ procs[p].read = <<>>

\* C23 (as claimed): the big learning job honours its deadline and then
\* finalizes the job record: once the task run_big_learning_job has written
\* 'running' and returned, the job record has a terminal status.
C23_BigJobFinalizes ==
    \A id \in DOMAIN jobs :
        ( /\ jobs[id].task = "api.tasks.run_big_learning_job"
          /\ jobs[id].pc = "done"
          /\ ~jobs[id].faulted )
        => jobs[id].status \in {"completed", "failed"}

\* C24: deepening is additive.  The step in which deep_learning deepens the
\* known concepts sets only expanded_definition and last_deepened on their
\* solidified_knowledge records: the definition and every other field of
\* those records, the set of records, the known words, the pending set, the
\* review entries and the vector index are unchanged.
C24_DeepeningAdditive ==
    [][ \A p \in DOMAIN procs :
          (procs[p].pc = "deepen" /\ procs'[p].pc = "done") =>
            /\ db'.known_words = db.known_words
            /\ db'.unknown_words = db.unknown_words
            /\ db'.needs_review = db.needs_review
            /\ index' = index
            /\ DOMAIN db'.solidified_knowledge = DOMAIN db.solidified_knowledge
            /\ \A w \in DOMAIN db.solidified_knowledge :
                LET before == db.solidified_knowledge[w]
                    after  == db'.solidified_knowledge[w]
                IN  /\ DOMAIN after \subseteq
                            DOMAIN before \cup {"expanded_definition", "last_deepened"}
                    /\ \A f \in DOMAIN before \ {"expanded_definition", "last_deepened"} :
                            f \in DOMAIN after /\ after[f] = before[f] ]_vars

\* A deep cycle has deepened a known concept: its record holds the expansion
\* next to the definition it had.
C24_Witness ==
    /\ "deep" \in DOMAIN procs
    /\ procs["deep"].pc = "done"
    /\ "network" \in DOMAIN db.solidified_knowledge
    /\ "expanded_definition" \in DOMAIN db.solidified_knowledge["network"]
    /\ db.solidified_knowledge["network"].definition = WebText

\* C25: answer branches.  With the services up, a call of
\* generate_response_from_knowledge that finds a confident match returns the
\* stored document verbatim and registers nothing (the store is unchanged);
\* a call that finds no match or a weak match returns the fixed don't-know
\* message, logs one review entry for the prompt and registers the prompt's
\* candidates in the pending set.
C25_AnswerBranches ==
    [][ (last'.op = "ask" /\ last'.healthOk) =>
          IF last'.hit.found /\ last'.hit.score < Threshold
          THEN /\ last'.response.synthesized_answer = last'.hit.document
               /\ db' = db
          ELSE /\ last'.response.synthesized_answer = DontKnowAnswer
               /\ Len(db'.needs_review) = Len(db.needs_review) + 1
               /\ db'.needs_review[Len(db'.needs_review)].prompt = last'.prompt
               /\ db'.unknown_words =
                    db.unknown_words
                        \cup DedupCandidates(Candidates(nlp(last'.prompt), TRUE))
               /\ db'.known_words = db.known_words ]_vars

\* A weak match was answered with the don't-know message and the prompt's
\* candidates are pending.
C25_Witness ==
    /\ last.op = "ask"
    /\ last.healthOk
    /\ last.hit.found
    /\ last.hit.score >= Threshold
    /\ last.response.synthesized_answer = DontKnowAnswer
    /\ DedupCandidates(Candidates(nlp(last.prompt), TRUE)) # {}
    /\ DedupCandidates(Candidates(nlp(last.prompt), TRUE)) \subseteq db.unknown_words
    /\ LatestCandidates(db) = DedupCandidates(Candidates(nlp(last.prompt), TRUE))

\* C26 (as claimed): a learning job whose cycle hits a setup-level fault
\* (the pending list cannot be read) ends with status 'failed' and a
\* non-empty errors list; a job whose cycle read the pending list never ends
\* 'failed' because of failures of individual concepts.
C26_SetupFaultFailsJob ==
    \A id \in DOMAIN jobs :
        ( /\ jobs[id].task = "api.tasks.run_learning_job"
          /\ jobs[id].pc = "done"
          /\ ~jobs[id].faulted )
        => /\ jobs[id].readFault
                => (jobs[id].status = "failed" /\ jobs[id].errors # <<>>)
           /\ ~jobs[id].readFault => jobs[id].status = "completed"

\* C27: a step of a refinement task or of a recovery task leaves the known
\* set, the pending set, the solidified records, the review log, the vector
\* index and the learning gate as they were; a step that changes a recovery
\* task changes nothing of the refinement registry, and a step that changes
\* the refinement registry changes no recovery task.
C27_SchedulerIsolation ==
    [][ /\ db' = db
        /\ index' = index
        /\ lastRun' = lastRun
        /\ tasks' # tasks => refine' = refine
        /\ refine' # refine => tasks' = tasks ]_vars

\* C27 witness: over a store with a known word, a pending word and an indexed
\* seed, a recovery task has recovered after finding web results and a
\* refinement task has been refined.
C27_Witness ==
    /\ DOMAIN db.known_words # {}
    /\ db.unknown_words # {}
    /\ DOMAIN index # {}
    /\ \E id \in DOMAIN tasks :
        tasks[id].status = "recovered" /\ tasks[id].regenerations > 0
    /\ \E g \in DOMAIN refine.objects : refine.objects[g].status = "refined"

\* C28 (as claimed): every record a step writes into the known store, be it
\* a new record or the replacement of an old one, has a definition that is
\* not empty; so no step replaces a non-empty definition with an empty one.
C28_KnownMeansDefined ==
    [][ /\ \A c \in DOMAIN db'.solidified_knowledge :
            (c \notin DOMAIN db.solidified_knowledge
                \/ db'.solidified_knowledge[c] # db.solidified_knowledge[c])
            => /\ "definition" \in DOMAIN db'.solidified_knowledge[c]
               /\ db'.solidified_knowledge[c].definition # ""
        /\ \A c \in DOMAIN db'.known_words :
            (c \notin DOMAIN db.known_words
                \/ db'.known_words[c] # db.known_words[c])
            => /\ "definition" \in DOMAIN db'.known_words[c]
               /\ db'.known_words[c].definition # "" ]_vars

\* C29: a call of quick_learn_unknowns that returns status 'skipped' leaves
\* _last_learning_run, the pending set, the known set, every stored record
\* and the vector index as they were, takes no batch of concepts to research
\* and does not count as a run of the cycle.
C29_SkippedIsNoOp ==
    [][ (last'.op = "quick_learn" /\ last'.results.status = "skipped")
        => /\ db' = db
           /\ lastRun' = lastRun
           /\ index' = index
           /\ ranAt' = ranAt
           /\ last'.batch = <<>>
           /\ last'.results.learned_count = 0 ]_vars

\* C29 witness: a call was skipped inside the interval while concepts were
\* pending.
C29_Witness ==
    /\ last.op = "quick_learn"
    /\ last.results.status = "skipped"
    /\ lastRun # <<>>
    /\ last.at - lastRun[1] < LEARNING_INTERVAL
    /\ last.at > lastRun[1]
    /\ db.unknown_words # {}

\* C30 (as claimed): every job reaches a terminal status.  Once a worker has
\* picked up the task of a job, the job record eventually has status
\* 'completed' or 'failed', unless a write to the record failed; the
\* job-status stream, which ends on a terminal status, then terminates.
C30_JobsTerminate ==
    \A id \in JobIds :
        (id \in DOMAIN jobs /\ jobs[id].pc # "enqueued")
            ~> /\ id \in DOMAIN jobs
               /\ jobs[id].status \in {"completed", "failed"} \/ jobs[id].faulted

\* C31: one run of quick_learn_unknowns that reaches its loop processes the
\* first min(3, number pending) concepts of the pending listing: each of them
\* is counted once, as learned or as an error, so the two counts add up to
\* that number and to at most 3; every concept the run researched, promoted
\* or reported is one of them, and a pending concept after the third is still
\* pending and has no known record after the run.
C31_QuickBatchBound ==
    [][ (now' = now /\ last'.op = "quick_learn" /\ last'.results.status = "completed")
        => LET listing == get_unknown_words(db)
               n == Min(QuickBatch, Len(listing))
               first == {listing[i] : i \in 1..n}
           IN  /\ last'.results.learned_count + Len(last'.results.errors) = n
               /\ last'.results.learned_count + Len(last'.results.errors) <= QuickBatch
               /\ DOMAIN db'.known_words \ DOMAIN db.known_words \subseteq first
               /\ db.unknown_words \ db'.unknown_words \subseteq first
               /\ \A i \in 1..Len(listing) :
                    i > n => /\ listing[i] \in db'.unknown_words
                             /\ listing[i] \notin DOMAIN db'.known_words ]_vars

\* C31 witness: a run on four pending concepts learned the first three and
\* left the fourth pending.
C31_Witness ==
    /\ last.op = "quick_learn"
    /\ last.results.status = "completed"
    /\ last.prevRanAt = <<>>
    /\ last.results.learned_count = QuickBatch
    /\ db.unknown_words = {StreamOrder[Len(StreamOrder)]}
    /\ DOMAIN db.known_words = Range(StreamOrder) \ db.unknown_words

\* C32 (as claimed): quick_research tries DuckDuckGo, then Google CSE, then
\* Groq, and returns the text of the first backend that answered with more
\* than 50 characters after stripping; a backend that is missing, raises,
\* answers nothing or answers 50 characters or fewer is a miss, and when all
\* three miss the result is the empty string.
C32_SearchChain ==
    chain.op = "quick_research" =>
        LET Hit(o) == o.kind = "text" /\ o.text.stripped > MinResearchLength IN
        chain.result =
            IF Hit(chain.ddg) THEN chain.ddg.text
            ELSE IF Hit(chain.google) THEN chain.google.text
            ELSE IF Hit(chain.groq) THEN chain.groq.text
            ELSE EmptyText

\* C33: in trigger_learning_cycle a pending word that the dictionary
\* validation rejects is deleted from the pending set, is not researched or
\* categorized, and has no known record after the cycle.
C33_InvalidWordRemoved ==
    last.op = "trigger_learning_cycle" =>
        \A w \in Range(last.visited) :
            last.env.valid[w] = "invalid"
            => /\ w \notin db.unknown_words
               /\ w \notin last.researched
               /\ w \notin last.categorized
               /\ w \notin DOMAIN db.known_words

\* C33 witness: the cycle rejected its first word and went on to learn the
\* second.
C33_Witness ==
    /\ last.op = "trigger_learning_cycle"
    /\ Len(last.visited) > 1
    /\ last.env.valid[last.visited[1]] = "invalid"
    /\ last.visited[1] \in last.removed
    /\ last.visited[1] \notin db.unknown_words
    /\ last.visited[2] \in DOMAIN db.known_words

\* C40 (as claimed): a failure while one pending word is processed does not
\* keep the words after it in the listing from being processed: every word
\* of the listing is reached by the cycle.
C40_ScheduledIsolation ==
    last.op = "trigger_learning_cycle" => last.visited = last.listing

\* C34: a call of detect_and_log_unknown_words with the store available
\* appends exactly one review entry, holding the prompt and the deduplicated
\* candidates, and afterwards every one of those candidates is pending; no
\* step modifies or removes a review entry written earlier.
C34_DetectionRegisters ==
    [][ LET old == Len(db.needs_review) IN
        /\ Len(db'.needs_review) >= old
        /\ SubSeq(db'.needs_review, 1, old) = db.needs_review
        /\ (last'.op = "detect" /\ db' # db)
            => /\ Len(db'.needs_review) = old + 1
               /\ db'.needs_review[old + 1] =
                    [prompt |-> last'.prompt,
                     candidates |-> DedupCandidates(Candidates(nlp(last'.prompt), TRUE))]
               /\ db'.needs_review[old + 1].candidates \subseteq db'.unknown_words ]_vars

\* C34 witness: a second detection has appended its entry after an earlier,
\* different one, and its two or more candidates are pending.
C34_Witness ==
    /\ last.op = "detect"
    /\ Len(db.needs_review) > 1
    /\ db.needs_review[Len(db.needs_review)].prompt = last.prompt
    /\ db.needs_review[1] # db.needs_review[Len(db.needs_review)]
    /\ Cardinality(LatestCandidates(db)) > 1
    /\ LatestCandidates(db) \subseteq db.unknown_words

C36_NoStarvation ==
    \A w \in Range(StreamOrder) :
        ( /\ w \in db.unknown_words
          /\ ~Falsy(Explanation(chain.env, w))
          /\ groq_generate_text(chain.env, w) # NoneValue )
            ~> (w \in DOMAIN db.known_words)

\* C37: promotion never loses a concept.  In every state of every
\* interleaving of two cycles, also between the two store operations of
\* add_word, a concept that was pending at the start is pending or known; a
\* step that deletes a pending entry finds the known record already written,
\* and no step removes a known record.
C37_PromotionKeepsConcept ==
    [][ /\ \A w \in RaceStore.unknown_words :
            w \in db'.unknown_words \/ w \in DOMAIN db'.known_words
        /\ \A w \in db.unknown_words \ db'.unknown_words :
            w \in DOMAIN db.known_words
        /\ DOMAIN db.known_words \subseteq DOMAIN db'.known_words ]_vars

\* C37 witness: a cycle stands between the write of the known record and the
\* deletion of the pending entry, and the concept is in both sets.
C37_Witness ==
    /\ \E p \in DOMAIN procs :
        /\ procs[p].pc = "delete"
        /\ procs[p].wrote # <<>>
        /\ Head(procs[p].words) = RaceWord
    /\ RaceWord \in db.unknown_words
    /\ RaceWord \in DOMAIN db.known_words

\* C38 (as claimed): learned_count is truthful.  At the end of a
\* quick_learn_unknowns run that reached its loop, learned_count is the
\* number of concepts the run moved into the known set, also when the store
\* write of a promotion fails.
C38_LearnedCountTruthful ==
    [][ (now' = now /\ last'.op = "quick_learn" /\ last'.results.status = "completed")
        => last'.results.learned_count =
                Cardinality(DOMAIN db'.known_words \ DOMAIN db.known_words) ]_vars

\* C39 (as claimed): one refinement loop per topic.  After any sequence of
\* schedule_refinement_task and clear_task calls, at most one
\* _run_refinement_task thread is active (in its loop or refining) for a
\* given topic.
C39_OneLoopPerTopic ==
    \A topic \in Topics :
        Cardinality({th \in DOMAIN refine.threads :
                        /\ refine.threads[th].topic = topic
                        /\ refine.threads[th].pc \in {"loop", "refining"}}) <= 1

====
